---- MODULE Spec2Model ----
(***************************************************************************)
(* SecureHub: rate limiter and session-timeout monitor                     *)
(* (src/modules/security-manager.js) and the crypto worker pool dispatcher *)
(* (src/modules/crypto-worker-manager.js).                                 *)
(*                                                                         *)
(* Time is in milliseconds, as Date.now() and setTimeout count it.  The    *)
(* clock `now` only moves in the Tick actions; calls made between two      *)
(* ticks see the same Date.now().                                          *)
(***************************************************************************)
EXTENDS Integers, Sequences, FiniteSets, TLC

VARIABLES
    now,            \* Date.now()
    ticks,          \* number of clock steps taken (bounds the run)
    \* ---- RateLimiter ----
    attempts,       \* this.attempts: Map identifier -> array of timestamps
    blockedUntil,   \* this.blockedUntil: Map identifier -> timestamp
    rlResult,       \* per identifier, what the last call on it returned
    allowedLog,     \* history: per identifier, the allowed calls since the last
                    \* reset that are still inside the window, each as
                    \* <<time of the call, attempts counted before it>>
    blockSetAt,     \* history: per identifier, the time at which checkLimit
                    \* last set a block (Null: none since the last reset)
    \* ---- SessionManager ----
    sm,             \* the SessionManager object, the listeners it registered
                    \* on the document and the timers it has pending
    smLog,          \* history: the last step, and how often each callback was
                    \* invoked since the last start
    \* ---- CryptoWorkerManager ----
    workers,        \* this.workers: array of {busy, id}
    initialized,    \* this.initialized
    pendingOperations, \* this.pendingOperations: Map operation id -> {workerId}
    operationId,    \* this.operationId
    opTimers,       \* the pending per-operation timers, each with the operation
                    \* it belongs to, its deadline, and whether the worker
                    \* object its closure holds is still in this.workers
    jobs,           \* the requests posted to live workers and not yet answered
    readyMsgs,      \* the 'ready' messages of live workers not yet delivered
    suspended,      \* the execute calls waiting at `await this.initialize()`
    promise,        \* per dispatched operation, the state of its promise and
                    \* how often resolve or reject was called on it
    wmLog,          \* history: the last step, the last inline execution, and the
                    \* operations that were in flight at the last terminate
    \* ---- executeInMainThread against the worker script ----
    offered,        \* the last request run through both, and what each gave
    \* ---- KeyCache.generateCacheKey ----
    keyed,          \* the last two (password, salt) inputs and their cache keys
    \* ---- KeyCache ----
    cache,          \* this.cache: Map cache key -> {value, expiresAt, createdAt, hits}
    cleanupDue,     \* when the cleanup interval runs next
    kcRet,          \* the last call on the cache since the clock moved: its
                    \* name, its key, what it returned, and the entries it
                    \* removed, each with its history
    lastSet,        \* history: per cache key that has an entry, the set that
                    \* made the entry (value, time, ttl) and how often the
                    \* entry was extended since
    \* ---- CachedCrypto.deriveKeyFromPassword ----
    derived,        \* the calls waiting for e2eeCrypto's derivation, and the
                    \* last call that returned: its input, the key it gave
                    \* and whether the key came from the cache
    \* ---- ZeroKnowledge: challenges and password proofs ----
    challenges,     \* this.challenges: Map challengeId -> {timestamp, verified}
    proofs,         \* this.proofs: Map challengeId -> {verified, timestamp}
    zkDue,          \* when the interval of clearExpiredChallenges runs next
    zkRet,          \* the last call of verifyPasswordProof: its arguments, the
                    \* value its promise resolved with, and whether the
                    \* challenge was in the store, and too old, when called
    zkLog,          \* history: the challengeIds issued, and those for which a
                    \* verifyPasswordProof has resolved with a truthy value
    \* ---- verifyVaultAccessProof and verifyAgeProof ----
    checked,        \* the last call of one of the two: the function, the proof
                    \* and the stored commitment it was given, and what it
                    \* returned
    \* ---- createAgeProof ----
    aged,           \* the last run of createAgeProof: the date of the clock,
                    \* the birthdate and minAge, the proof returned for the
                    \* birthdate and the one returned for the day after it
    \* ---- encryptMessage and decryptMessage ----
    sealed,         \* the message encrypted, the encryption made for it, the
                    \* envelope returned, what was done to the envelope or
                    \* the key before decryptMessage, and how decryptMessage
                    \* settled
    \* ---- encryptMessage called again and again ----
    sent,           \* for each call of encryptMessage in turn: the key, the iv
                    \* getRandomValues drew and the envelope returned
    \* ---- E2EECrypto key pairs ----
    engine,         \* keyPairs: the key pair stored for each user that has one;
                    \* ret: the last call and how it settled; failures: each
                    \* cause deriveSharedSecret failed from with the error the
                    \* caller got; posted: the last message the worker posted
    \* ---- ZKVault ----
    vault,          \* isUnlocked, masterKey, vaultData, salt, commitment, the
                    \* metadata in localStorage and the view last rendered
    vCalls,         \* the async calls waiting at an await, each with its
                    \* function, its position and the values it holds; a
                    \* function is not called again while a call of it waits
    vLog            \* history: what locked the vault last ("lock": the button,
                    \* "timeout": the session timeout), "none" once it is
                    \* unlocked again

----------------------------------------------------------------------------
\* Bounds of the model

\* clock steps in one run
MaxTicks == 5

\* activity handlers registered on the document at one time
MaxListeners == 2

\* operations dispatched to workers in one run
MaxOps == 2

\* clock steps in one run of the worker pool
MaxPoolTicks == 3

\* execute calls waiting for initialize at one time
MaxSuspended == 2

\* letters in a password given to generateCacheKey
MaxPasswordLen == 2

\* clock steps in one run of the key cache
MaxCacheTicks == 2

\* hits counted on one cache entry
MaxHits == 1

\* extend calls on one cache entry
MaxExtends == 1

\* clock steps in one run of the cached key derivation
MaxDeriveTicks == 2

\* clock steps in one run of the vault
MaxVaultTicks == 2

\* challenges generated in one run
MaxChallenges == 2

\* clock steps in one run of the challenge store
MaxChallengeTicks == 2

\* clock steps in one run of the proof verifiers
MaxVerifyTicks == 2

\* code units in a message given to encryptMessage
MaxPlainLen == 2

\* calls of encryptMessage in one run of the iv draws
MaxMessages == 2

\* clock steps in one run of the rate limiter with two identifiers
MaxPairTicks == 2

----------------------------------------------------------------------------
\* Values standing for JavaScript's undefined / null

Undefined == 0 - 1
Null == 0 - 2

\* Math.ceil(a / b) for a >= 0, b > 0
CeilDiv(a, b) == (a + b - 1) \div b

\* Map.prototype.set / delete on a function whose domain is the key set
MapSet(m, k, v) == [x \in (DOMAIN m) \cup {k} |-> IF x = k THEN v ELSE m[x]]
MapDelete(m, k) == [x \in (DOMAIN m) \ {k} |-> m[x]]

----------------------------------------------------------------------------
\* RateLimiter (security-manager.js)

\* constructor defaults: maxAttempts = 5, windowMs = 300000
maxAttempts == 5
windowMs == 300000

\* the identifiers the callers use
Identifiers == {"vault-unlock", "zk-proof"}

\* steps of the clock between calls: half a second, and the rest of a window
RLTickSteps == {500, 299500}

\* blockedUntil && now < blockedUntil
IsBlocked(bu, id, t) == id \in DOMAIN bu /\ bu[id] # 0 /\ t < bu[id]

\* this.attempts.get(identifier) || []
UserAttempts(at, id) == IF id \in DOMAIN at THEN at[id] ELSE <<>>

\* a window one second shorter
InWindowShort(t, time) == t - time < windowMs - 1000

\* time => now - time < this.windowMs
InWindow(t, time) == t - time < windowMs

\* userAttempts.filter(time => now - time < this.windowMs)
RecentAttempts(at, id, t) ==
    LET Keep(time) == InWindow(t, time) IN SelectSeq(UserAttempts(at, id), Keep)

\* the limit test with > in place of >=: one attempt more goes through
LimitExceededStrict(recent) == Len(recent) > maxAttempts

\* recentAttempts.length >= this.maxAttempts
LimitExceeded(recent) == Len(recent) >= maxAttempts

\* the remaining time rounded down instead of up
RetryAfterFloor(until, t) == (until - t) \div 1000

\* Math.ceil((blockedUntil - now) / 1000)
RetryAfterBlocked(until, t) == CeilDiv(until - t, 1000)

\* a block one second shorter than the window
BlockUntilShort(t) == t + windowMs - 1000

\* now + this.windowMs
BlockUntil(t) == t + windowMs

\* a reset that forgets the attempts of every identifier
ResetAttemptsAll(at, id) == <<>>

\* this.attempts.delete(identifier)
ResetAttempts(at, id) == MapDelete(at, id)

\* a reset that leaves the block in place
ResetBlockKept(bu, id) == bu

\* this.blockedUntil.delete(identifier)
ResetBlock(bu, id) == MapDelete(bu, id)

\* the value a call returns, with the branch that produced it; `after` is the
\* branch of the call before it on the same identifier, and resetInBlock
\* tells that the reset (this call, or the one right before it) found an
\* active block
Result(op, allowed, retryAfter, attemptsLeft, branch, after, rib) ==
    [op |-> op, allowed |-> allowed, retryAfter |-> retryAfter,
     attemptsLeft |-> attemptsLeft, branch |-> branch, after |-> after,
     resetInBlock |-> rib]

\* checkLimit(identifier)
CheckLimit(id) ==
    LET recent == RecentAttempts(attempts, id, now)
        prev == rlResult[id]
        rib == prev.op = "reset" /\ prev.resetInBlock
    IN
    /\ IF IsBlocked(blockedUntil, id, now)
         THEN /\ rlResult' = [rlResult EXCEPT ![id] =
                    Result("checkLimit", FALSE,
                           RetryAfterBlocked(blockedUntil[id], now),
                           Undefined, "blocked", prev.branch, rib)]
              /\ UNCHANGED <<attempts, blockedUntil, allowedLog, blockSetAt>>
         ELSE IF LimitExceeded(recent)
         THEN /\ blockedUntil' = MapSet(blockedUntil, id, BlockUntil(now))
              /\ rlResult' = [rlResult EXCEPT ![id] =
                    Result("checkLimit", FALSE, CeilDiv(windowMs, 1000),
                           Undefined, "exceeded", prev.branch, rib)]
              /\ blockSetAt' = [blockSetAt EXCEPT ![id] = now]
              /\ UNCHANGED <<attempts, allowedLog>>
         ELSE /\ attempts' = MapSet(attempts, id, Append(recent, now))
              /\ rlResult' = [rlResult EXCEPT ![id] =
                    Result("checkLimit", TRUE, Undefined,
                           maxAttempts - (Len(recent) + 1),
                           "allowed", prev.branch, rib)]
              /\ allowedLog' = [allowedLog EXCEPT ![id] = @ \cup {<<now, Len(recent)>>}]
              /\ UNCHANGED <<blockedUntil, blockSetAt>>
    /\ UNCHANGED <<now, ticks>>

\* reset(identifier)
Reset(id) ==
    /\ attempts' = ResetAttempts(attempts, id)
    /\ blockedUntil' = ResetBlock(blockedUntil, id)
    /\ rlResult' = [rlResult EXCEPT ![id] =
          Result("reset", FALSE, Undefined, Undefined, "reset",
                 rlResult[id].branch, IsBlocked(blockedUntil, id, now))]
    /\ allowedLog' = [allowedLog EXCEPT ![id] = {}]
    /\ blockSetAt' = [blockSetAt EXCEPT ![id] = Null]
    /\ UNCHANGED <<now, ticks>>

\* the clock moves between two calls
RLTick ==
    /\ ticks < MaxTicks
    /\ \E d \in RLTickSteps :
         /\ now' = now + d
         /\ allowedLog' = [id \in Identifiers |->
                            {e \in allowedLog[id] : (now + d) - e[1] < windowMs}]
    /\ ticks' = ticks + 1
    /\ UNCHANGED <<attempts, blockedUntil, rlResult, blockSetAt>>

\* the clock moves between two calls, in the runs with two identifiers
RLPairTick == ticks < MaxPairTicks /\ RLTick

----------------------------------------------------------------------------
\* SessionManager (security-manager.js)

\* this.warningTime = 60000
warningTime == 60000

\* constructor default: timeoutMs = 900000
defaultTimeoutMs == 900000

\* the durations setTimeout(timeoutMs) is called with: the default, and one
\* that leaves no room for a warning
SessionTimeouts == {defaultTimeoutMs, warningTime}

\* steps of the clock: the warning lead, and the rest of a default timeout
SMTickSteps == {warningTime, defaultTimeoutMs - warningTime}

\* a handle (timer or listener) not in use: the host hands out handles that
\* equal no live handle
FreeHandle(used) == CHOOSE i \in 1..(Cardinality(used) + 1) :
                       i \notin used /\ \A j \in 1..(i - 1) : j \in used

TimerHandles(s) == {t.id : t \in s.timers} \cup ({s.timeoutId, s.warningId} \ {Null})

\* clearTimeout(id)
ClearTimeout(timers, id) == {t \in timers : t.id # id}

\* a resetTimeout without its guard
ResetNeverIgnored(s) == FALSE

\* if (!this.isActive) return;
ResetIgnored(s) == ~s.isActive

\* resetTimeout: "Clear existing timers" that leaves the timeout timer alone
ClearExistingWarningOnly(s) ==
    IF s.warningId # Null
      THEN [s EXCEPT !.timers = ClearTimeout(@, s.warningId)]
      ELSE s

\* resetTimeout: "Clear existing timers"
ClearExisting(s) ==
    LET s1 == IF s.timeoutId # Null
                THEN [s EXCEPT !.timers = ClearTimeout(@, s.timeoutId)]
                ELSE s
    IN IF s1.warningId # Null
         THEN [s1 EXCEPT !.timers = ClearTimeout(@, s1.warningId)]
         ELSE s1

\* a warning scheduled a warning lead after the reset, not before the deadline
WarningDelayLead(s) == warningTime

\* the delay of the warning timer: this.timeoutMs - this.warningTime
WarningDelay(s) == s.timeoutMs - warningTime

\* the delay of the timeout timer: this.timeoutMs
TimeoutDelay(s) == s.timeoutMs

\* resetTimeout: "Set warning timer"
SetWarningTimer(s, t) ==
    IF s.onWarning /\ s.timeoutMs > warningTime
      THEN LET i == FreeHandle(TimerHandles(s))
           IN [s EXCEPT !.warningId = i,
                        !.timers = @ \cup {[id |-> i, kind |-> "warning",
                                            due |-> t + WarningDelay(s)]}]
      ELSE s

\* resetTimeout: "Set timeout timer"
SetTimeoutTimer(s, t) ==
    LET i == FreeHandle(TimerHandles(s))
    IN [s EXCEPT !.timeoutId = i,
                 !.timers = @ \cup {[id |-> i, kind |-> "timeout",
                                     due |-> t + TimeoutDelay(s)]}]

\* resetTimeout()
ResetTimeout(s, t) ==
    IF ResetIgnored(s) THEN s
    ELSE SetTimeoutTimer(
           SetWarningTimer(ClearExisting([s EXCEPT !.lastActivity = t]), t), t)

\* a stop that cancels the timers but leaves the monitor marked active
StopStillActive(s) ==
    LET s2 == IF s.timeoutId # Null
                THEN [s EXCEPT !.timers = ClearTimeout(@, s.timeoutId), !.timeoutId = Null]
                ELSE s
        s3 == IF s2.warningId # Null
                THEN [s2 EXCEPT !.timers = ClearTimeout(@, s2.warningId), !.warningId = Null]
                ELSE s2
    IN IF s3.activityHandler # Null
         THEN [s3 EXCEPT !.listeners = @ \ {s3.activityHandler}]
         ELSE s3

\* stop()
Stop(s) ==
    LET s1 == [s EXCEPT !.isActive = FALSE]
        s2 == IF s1.timeoutId # Null
                THEN [s1 EXCEPT !.timers = ClearTimeout(@, s1.timeoutId), !.timeoutId = Null]
                ELSE s1
        s3 == IF s2.warningId # Null
                THEN [s2 EXCEPT !.timers = ClearTimeout(@, s2.warningId), !.warningId = Null]
                ELSE s2
    IN IF s3.activityHandler # Null
         THEN [s3 EXCEPT !.listeners = @ \ {s3.activityHandler}]
         ELSE s3

\* start(onTimeout, onWarning): onTimeout is a function, onWarning a function
\* (TRUE) or null (FALSE); the new activityHandler closure is registered
Start(s, onWarning, t) ==
    LET h == FreeHandle(s.listeners \cup ({s.activityHandler} \ {Null}))
        s1 == [s EXCEPT !.onTimeout = TRUE, !.onWarning = onWarning,
                        !.isActive = TRUE, !.activityHandler = h,
                        !.listeners = @ \cup {h}]
    IN ResetTimeout(s1, t)

\* the document dispatches one activity event: every registered handler runs
\* resetTimeout
RECURSIVE Dispatch(_, _, _)
Dispatch(s, n, t) == IF n = 0 THEN s ELSE Dispatch(ResetTimeout(s, t), n - 1, t)

\* the timeout that stays armed after it has fired
AfterTimeoutKeepRunning(s) == s

\* the timeout callback, after onTimeout: this.stop()
AfterTimeout(s) == Stop(s)

\* the body of the timeout timer's callback; the caller's onTimeout may itself
\* stop the session (zk-vault.js: lockVault)
TimeoutCallback(s, callbackStops) ==
    LET s1 == IF s.onTimeout /\ callbackStops THEN Stop(s) ELSE s
    IN AfterTimeout(s1)

\* the deadline of the pending timeout timer (Null: none pending)
PendingTimeoutDue(s) ==
    IF \E tm \in s.timers : tm.kind = "timeout"
      THEN (CHOOSE tm \in s.timers : tm.kind = "timeout").due
      ELSE Null

\* history: the last step, the invocations of each callback since the last
\* start, the deadline of the timer that ran in the last step, and the
\* deadline of the timeout timer that the last step found pending and replaced
\* or cancelled
Log(last, nTimeout, nWarning, fired, cancelled) ==
    [last |-> last, timeoutCalls |-> nTimeout, warningCalls |-> nWarning,
     firedDue |-> fired, cancelledDue |-> cancelled]

Replaced(before, after) ==
    IF after.timers \cap before.timers = {} THEN PendingTimeoutDue(before) ELSE Null

SMStart ==
    /\ Cardinality(sm.listeners) < MaxListeners
    /\ \E onWarning \in BOOLEAN : sm' = Start(sm, onWarning, now)
    /\ smLog' = Log("start", 0, 0, Null, Replaced(sm, sm'))

SMStop ==
    /\ sm' = Stop(sm)
    /\ smLog' = Log("stop", smLog.timeoutCalls, smLog.warningCalls, Null,
                    Replaced(sm, sm'))

\* a mousedown, keydown, scroll, touchstart or mousemove event
SMActivity ==
    /\ sm.listeners # {}
    /\ sm' = Dispatch(sm, Cardinality(sm.listeners), now)
    /\ smLog' = Log("activity", smLog.timeoutCalls, smLog.warningCalls, Null,
                    Replaced(sm, sm'))

\* extend()
SMExtend ==
    /\ sm' = ResetTimeout(sm, now)
    /\ smLog' = Log("extend", smLog.timeoutCalls, smLog.warningCalls, Null,
                    Replaced(sm, sm'))

\* setTimeout(timeoutMs)
SMSetTimeout ==
    /\ \E ms \in SessionTimeouts :
         LET s1 == [sm EXCEPT !.timeoutMs = ms]
         IN sm' = IF s1.isActive THEN ResetTimeout(s1, now) ELSE s1
    /\ smLog' = Log("setTimeout", smLog.timeoutCalls, smLog.warningCalls, Null,
                    Replaced(sm, sm'))

\* the host runs the callback of a timeout timer that is due
SMFireTimeout ==
    \E tm \in sm.timers :
       /\ tm.kind = "timeout"
       /\ tm.due <= now
       /\ \E callbackStops \in BOOLEAN :
            sm' = TimeoutCallback([sm EXCEPT !.timers = @ \ {tm}], callbackStops)
       /\ smLog' = Log("timeout",
                       IF sm.onTimeout THEN smLog.timeoutCalls + 1 ELSE smLog.timeoutCalls,
                       smLog.warningCalls, tm.due, Null)

\* the host runs the callback of a warning timer that is due
SMFireWarning ==
    \E tm \in sm.timers :
       /\ tm.kind = "warning"
       /\ tm.due <= now
       /\ sm' = [sm EXCEPT !.timers = @ \ {tm}]
       /\ smLog' = Log("warning", smLog.timeoutCalls,
                       IF sm.onWarning THEN smLog.warningCalls + 1 ELSE smLog.warningCalls,
                       tm.due, Null)

\* the clock moves; a timer runs when it is due, so the clock does not pass
\* the deadline of a pending timer
SMTick ==
    /\ ticks < MaxTicks
    /\ \E d \in SMTickSteps :
         /\ \A tm \in sm.timers : now + d <= tm.due
         /\ now' = now + d
    /\ ticks' = ticks + 1
    /\ smLog' = Log("tick", smLog.timeoutCalls, smLog.warningCalls, Null, Null)
    /\ UNCHANGED sm

SMInit ==
    /\ sm = [timeoutMs |-> defaultTimeoutMs, lastActivity |-> 0,
             timeoutId |-> Null, warningId |-> Null,
             onTimeout |-> FALSE, onWarning |-> FALSE, isActive |-> FALSE,
             activityHandler |-> Null, listeners |-> {}, timers |-> {}]
    /\ smLog = Log("none", 0, 0, Null, Null)

----------------------------------------------------------------------------
\* CryptoWorkerManager (crypto-worker-manager.js)

\* const cryptoWorker = new CryptoWorkerManager(2)
workerCount == 2

\* execute(type, data, timeout = 30000)
defaultOpTimeout == 30000

\* the operation types sent: one for each case of executeInMainThread's switch
\* (deriveKey, encryptData, and hashData for its default)
OpTypes == {"deriveKey", "encryptData", "hashData"}

\* steps of the clock: half an operation timeout
WMTickSteps == {defaultOpTimeout \div 2}

\* initialize(): the loop pushes a worker per iteration until `created` of them
\* exist or `new Worker` throws
RECURSIVE PushWorkers(_, _, _)
PushWorkers(ws, i, created) ==
    IF i >= created THEN ws
    ELSE PushWorkers(Append(ws, [busy |-> FALSE, id |-> i]), i + 1, created)

\* this.initialized = this.workers.length > 0
InitializedAfter(ws) == Len(ws) > 0

\* a lookup that falls back to the first worker when none is idle
GetAvailableWorkerOrFirst(ws) ==
    IF \E k \in 1..Len(ws) : ~ws[k].busy
      THEN CHOOSE k \in 1..Len(ws) : ~ws[k].busy /\ \A j \in 1..(k - 1) : ws[j].busy
      ELSE IF Len(ws) > 0 THEN 1 ELSE 0

\* getAvailableWorker(): the index in this.workers of the first worker that is
\* not busy (0: none, for null)
GetAvailableWorker(ws) ==
    IF \E k \in 1..Len(ws) : ~ws[k].busy
      THEN CHOOSE k \in 1..Len(ws) : ~ws[k].busy /\ \A j \in 1..(k - 1) : ws[j].busy
      ELSE 0

\* executeInMainThread(type, data): how the returned promise settles
ExecuteInMainThread(type) ==
    IF type = "deriveKey" THEN "resolved"
    ELSE IF type = "encryptData" THEN "rejected: not implemented"
    ELSE "rejected: unknown operation"

\* resolve or reject called on the promise of operation i
Settle(pr, i, state) ==
    [pr EXCEPT ![i] = [state |-> IF @.state = "pending" THEN state ELSE @.state,
                       settleCalls |-> @.settleCalls + 1]]

\* a response that leaves the operation's timer running
ClearOpTimerKept(timers, op) == timers

\* clearTimeout(pending.timeoutId)
ClearOpTimer(timers, op) == {tm \in timers : tm.op # op}

\* a timeout that leaves the operation in the pending map
ForgetPendingKept(po, op) == po

\* this.pendingOperations.delete(operationId), in the timer's callback
ForgetPending(po, op) == MapDelete(po, op)

\* this.workers[workerId].busy = false, where workerId is the worker's id and
\* the array is indexed from 0
FreeWorkerAt(ws, workerId) ==
    IF workerId + 1 \in 1..Len(ws)
      THEN [ws EXCEPT ![workerId + 1].busy = FALSE]
      ELSE ws

\* history: the last step, the last inline execution, the operations in flight
\* at the last terminate, and whether an initialize has ended with no worker
WMLog(last, inline, interrupted, degraded) ==
    [last |-> last, inline |-> inline, interrupted |-> interrupted,
     degraded |-> degraded]

\* the part of execute after the await: inline execution, or dispatch to the
\* first idle worker
ExecuteBody(ws, type) ==
    LET k == GetAvailableWorker(ws) IN
    IF Len(ws) = 0 \/ k = 0
      THEN /\ wmLog' = WMLog("inline", <<type, ExecuteInMainThread(type)>>,
                             wmLog.interrupted, wmLog.degraded)
           /\ workers' = ws
           /\ UNCHANGED <<pendingOperations, operationId, opTimers, jobs, promise>>
      ELSE /\ operationId < MaxOps
           /\ workers' = [ws EXCEPT ![k].busy = TRUE]
           /\ operationId' = operationId + 1
           /\ opTimers' = opTimers \cup {[op |-> operationId,
                                          due |-> now + defaultOpTimeout,
                                          worker |-> k, live |-> TRUE]}
           /\ pendingOperations' = MapSet(pendingOperations, operationId,
                                          [workerId |-> ws[k].id])
           /\ jobs' = jobs \cup {[op |-> operationId, worker |-> k, type |-> type]}
           /\ promise' = MapSet(promise, operationId,
                                [state |-> "pending", settleCalls |-> 0])
           /\ wmLog' = WMLog("dispatch", wmLog.inline, wmLog.interrupted, wmLog.degraded)

\* initialize(), called when the script loads or by the application
WMInitialize ==
    /\ ~initialized
    /\ \E created \in 0..workerCount :
         LET ws == PushWorkers(workers, 0, created) IN
         /\ workers' = ws
         /\ initialized' = InitializedAfter(ws)
         /\ readyMsgs' = readyMsgs \cup (Len(workers) + 1)..Len(ws)
         /\ wmLog' = WMLog("initialize", wmLog.inline, wmLog.interrupted,
                           wmLog.degraded \/ Len(ws) = 0)
    /\ UNCHANGED <<pendingOperations, operationId, opTimers, jobs, suspended, promise>>

\* execute(type, data) on an initialized pool: runs to its end at once
WMExecute ==
    /\ initialized
    /\ \E type \in OpTypes : ExecuteBody(workers, type)
    /\ UNCHANGED <<initialized, readyMsgs, suspended>>

\* execute(type, data) on a pool that is not initialized: runs initialize() and
\* waits at the await
WMExecuteInit ==
    /\ ~initialized
    /\ Len(suspended) < MaxSuspended
    /\ \E created \in 0..workerCount :
         LET ws == PushWorkers(workers, 0, created) IN
         /\ workers' = ws
         /\ initialized' = InitializedAfter(ws)
         /\ readyMsgs' = readyMsgs \cup (Len(workers) + 1)..Len(ws)
         /\ wmLog' = WMLog("execute-await", wmLog.inline, wmLog.interrupted,
                           wmLog.degraded \/ Len(ws) = 0)
    /\ \E type \in OpTypes : suspended' = Append(suspended, type)
    /\ UNCHANGED <<pendingOperations, operationId, opTimers, jobs, promise>>

\* the first waiting execute call continues after its await
WMExecuteResume ==
    /\ suspended # <<>>
    /\ ExecuteBody(workers, Head(suspended))
    /\ suspended' = Tail(suspended)
    /\ UNCHANGED <<initialized, readyMsgs>>

\* a worker's { type: 'ready' } message reaches handleWorkerMessage
WMReady ==
    /\ suspended = <<>>
    /\ \E k \in readyMsgs : readyMsgs' = readyMsgs \ {k}
    /\ wmLog' = WMLog("ready", wmLog.inline, wmLog.interrupted, wmLog.degraded)
    /\ UNCHANGED <<workers, initialized, pendingOperations, operationId, opTimers,
                   jobs, suspended, promise>>

\* a worker answers a request and the message reaches handleWorkerMessage
WMResponse ==
    /\ suspended = <<>>
    /\ \E job \in jobs, success \in BOOLEAN :
         /\ jobs' = jobs \ {job}
         /\ IF job.op \notin DOMAIN pendingOperations
              THEN UNCHANGED <<workers, pendingOperations, opTimers, promise>>
              ELSE /\ opTimers' = ClearOpTimer(opTimers, job.op)
                   /\ promise' = Settle(promise, job.op,
                                        IF success THEN "resolved" ELSE "rejected: error")
                   /\ pendingOperations' = MapDelete(pendingOperations, job.op)
                   /\ workers' = FreeWorkerAt(workers, pendingOperations[job.op].workerId)
         /\ wmLog' = WMLog(IF job.op \in DOMAIN pendingOperations
                             THEN "response" ELSE "late response",
                           wmLog.inline, wmLog.interrupted, wmLog.degraded)
    /\ UNCHANGED <<initialized, operationId, readyMsgs, suspended>>

\* the timer of an operation runs
WMTimeout ==
    /\ suspended = <<>>
    /\ \E tm \in opTimers :
         /\ tm.due <= now
         /\ opTimers' = opTimers \ {tm}
         /\ pendingOperations' = ForgetPending(pendingOperations, tm.op)
         /\ workers' = IF tm.live THEN [workers EXCEPT ![tm.worker].busy = FALSE]
                                  ELSE workers
         /\ promise' = Settle(promise, tm.op, "rejected: timeout")
    /\ wmLog' = WMLog("timeout", wmLog.inline, wmLog.interrupted, wmLog.degraded)
    /\ UNCHANGED <<initialized, operationId, jobs, readyMsgs, suspended>>

\* terminate(): worker.terminate() also discards what the workers had posted
\* or were still to post
WMTerminate ==
    /\ workers' = <<>>
    /\ initialized' = FALSE
    /\ jobs' = {}
    /\ readyMsgs' = {}
    /\ opTimers' = {[tm EXCEPT !.live = FALSE] : tm \in opTimers}
    /\ wmLog' = WMLog("terminate", wmLog.inline, DOMAIN pendingOperations,
                    wmLog.degraded)
    /\ UNCHANGED <<pendingOperations, operationId, suspended, promise>>

\* the clock moves, not past the deadline of a pending timer
WMTick ==
    /\ suspended = <<>>
    /\ ticks < MaxPoolTicks
    /\ \E d \in WMTickSteps :
         /\ \A tm \in opTimers : now + d <= tm.due
         /\ now' = now + d
    /\ ticks' = ticks + 1
    /\ wmLog' = WMLog("tick", wmLog.inline, wmLog.interrupted, wmLog.degraded)
    /\ UNCHANGED <<workers, initialized, pendingOperations, operationId, opTimers,
                   jobs, readyMsgs, suspended, promise>>

WMInit ==
    /\ workers = <<>>
    /\ initialized = FALSE
    /\ pendingOperations = <<>>
    /\ operationId = 0
    /\ opTimers = {}
    /\ jobs = {}
    /\ readyMsgs = {}
    /\ suspended = <<>>
    /\ promise = <<>>
    /\ wmLog = WMLog("none", <<"none", "none">>, {}, FALSE)

----------------------------------------------------------------------------
\* One request run inline (executeInMainThread, crypto-worker-manager.js) and
\* by the worker script (key-cache.js, lines 259-545)

\* the operation types of the worker's switch and of the convenience methods
OfferedTypes == {"deriveKey", "encryptData", "decryptData", "generateKeyPair",
                 "deriveSharedSecret", "hashData"}

\* iterations = 100000: the worker's default and e2eeCrypto's fixed count
pbkdf2Iterations == 100000

\* new Uint8Array(16)
ZeroSalt == [i \in 1..16 |-> 0]

\* the payloads sent: a password, a salt (its bytes), an iteration count
\* (Undefined: left out) and the message or text the other routines work on
Payloads == [password : {"pw-a", "pw-b"},
             salt : {ZeroSalt, [i \in 1..16 |-> i]},
             iterations : {Undefined, 1000},
             message : {"m-a", "m-b"}]

\* crypto.subtle.deriveKey, PBKDF2 with SHA-256 to an AES-GCM 256 key: the key
\* is determined by the password, the salt and the iteration count
Pbkdf2(password, salt, iterations) == <<"PBKDF2", password, salt, iterations>>

\* how a call settled, the kind of value it gave and the value
Outcome(settled, shape, value) ==
    [settled |-> settled, shape |-> shape, value |-> value]

\* the worker's message handler: the routine of the type, and a success
\* response with its result; random is what crypto.getRandomValues and
\* generateKey draw
WorkerRoutine(type, data, random) ==
    IF type = "deriveKey"
      THEN Outcome("resolved", "{key: JsonWebKey, salt: base64}",
                   <<Pbkdf2(data.password, data.salt,
                            IF data.iterations = Undefined
                              THEN pbkdf2Iterations ELSE data.iterations),
                     data.salt>>)
    ELSE IF type = "encryptData"
      THEN Outcome("resolved", "{ciphertext, iv, timestamp}",
                   <<"AES-GCM", data.message, random>>)
    ELSE IF type = "decryptData"
      THEN Outcome("resolved", "string", <<"AES-GCM decrypt", data.message>>)
    ELSE IF type = "generateKeyPair"
      THEN Outcome("resolved", "{publicKey, privateKey}", <<"ECDH", random>>)
    ELSE IF type = "deriveSharedSecret"
      THEN Outcome("resolved", "{sharedSecret}", <<"ECDH derive", data.message>>)
    ELSE IF type = "hashData"
      THEN Outcome("resolved", "hex string", <<"SHA-256", data.message>>)
    ELSE Outcome("rejected", "Error", <<"Unknown operation type", type>>)

\* executeInMainThread(type, data): e2eeCrypto.deriveKeyFromPassword with a
\* zero salt for deriveKey, a thrown Error for every other type
InlineRoutine(type, data) ==
    IF ExecuteInMainThread(type) = "resolved"
      THEN Outcome("resolved", "CryptoKey",
                   <<Pbkdf2(data.password, ZeroSalt, pbkdf2Iterations)>>)
      ELSE Outcome("rejected", "Error", <<ExecuteInMainThread(type), type>>)

\* a request is run by executeInMainThread and by a worker
RunBoth ==
    \E type \in OfferedTypes, data \in Payloads, random \in {1, 2} :
       offered' = [type |-> type, data |-> data,
                   inline |-> InlineRoutine(type, data),
                   worker |-> WorkerRoutine(type, data, random)]

OfferedInit ==
    offered = [type |-> "none", data |-> Null,
               inline |-> Outcome("none", "none", <<>>),
               worker |-> Outcome("none", "none", <<>>)]

----------------------------------------------------------------------------
\* KeyCache.generateCacheKey and simpleHash (key-cache.js)
\*
\* A string is the sequence of its char codes.  The hash is a 32-bit integer,
\* kept as two 16-bit halves [hi, lo] (its two's-complement bit pattern), so
\* that every intermediate value is computed exactly.

Limb == 2^16

\* hash = ((hash << 5) - hash) + char; hash = hash & hash:
\* 31 * hash + char, cut to its low 32 bits
HashStep(hash, char) ==
    LET lo == 31 * hash.lo + char
        hi == 31 * hash.hi + (lo \div Limb)
    IN  [hi |-> hi % Limb, lo |-> lo % Limb]

\* the loop of simpleHash over str, from index i on
RECURSIVE HashLoop(_, _, _)
HashLoop(str, i, hash) ==
    IF i > Len(str) THEN hash
    ELSE HashLoop(str, i + 1, HashStep(hash, str[i]))

\* Math.abs(hash) of the signed 32-bit value: negative when the top bit is
\* set, and then 2^32 minus the bit pattern
MathAbs(hash) ==
    IF hash.hi < Limb \div 2 THEN hash
    ELSE IF hash.lo = 0 THEN [hi |-> Limb - hash.hi, lo |-> 0]
    ELSE [hi |-> Limb - 1 - hash.hi, lo |-> Limb - hash.lo]

Digits36 == <<"0", "1", "2", "3", "4", "5", "6", "7", "8", "9", "a", "b", "c",
              "d", "e", "f", "g", "h", "i", "j", "k", "l", "m", "n", "o", "p",
              "q", "r", "s", "t", "u", "v", "w", "x", "y", "z">>

\* n.toString(36) of a non-negative n given as halves: long division by 36
RECURSIVE ToString36(_)
ToString36(n) ==
    LET rest  == (n.hi % 36) * Limb + n.lo
        q     == [hi |-> n.hi \div 36, lo |-> rest \div 36]
        digit == Digits36[(rest % 36) + 1]
    IN  IF q.hi = 0 /\ q.lo = 0 THEN digit ELSE ToString36(q) \o digit

\* simpleHash(str)
SimpleHash(str) == ToString36(MathAbs(HashLoop(str, 1, [hi |-> 0, lo |-> 0])))

\* the char codes of a byte written in decimal
RECURSIVE DecimalChars(_)
DecimalChars(b) ==
    IF b < 10 THEN <<48 + b>> ELSE DecimalChars(b \div 10) \o <<48 + (b % 10)>>

\* Array.from(salt).join(',')
RECURSIVE JoinComma(_, _)
JoinComma(bytes, i) ==
    IF i > Len(bytes) THEN <<>>
    ELSE IF i = Len(bytes) THEN DecimalChars(bytes[i])
    ELSE DecimalChars(bytes[i]) \o <<44>> \o JoinComma(bytes, i + 1)

\* saltStr: a Uint8Array is joined, a string is taken as it is
SaltStr(salt) == IF salt.isBytes THEN JoinComma(salt.seq, 1) ELSE salt.seq

\* generateCacheKey(password, salt)
GenerateCacheKey(password, salt) ==
    SimpleHash(password) \o "_" \o SimpleHash(SaltStr(salt))

\* the letters passwords are made of: 'A', 'B', 'a'
PasswordChars == {65, 66, 97}

RECURSIVE StringsOfLength(_, _)
StringsOfLength(chars, n) ==
    IF n = 0 THEN {<<>>}
    ELSE {Append(str, c) : str \in StringsOfLength(chars, n - 1), c \in chars}

\* the passwords tried: every one of up to MaxPasswordLen letters, and two
\* that are long enough for the hash to wrap
KeyPasswords ==
    UNION {StringsOfLength(PasswordChars, n) : n \in 1..MaxPasswordLen}
      \cup {[i \in 1..8 |-> 97], [i \in 1..8 |-> 66]}

\* the salts tried: the Uint8Arrays [1, 2] and [12], and the string "1,2"
KeySalts ==
    {[isBytes |-> TRUE, seq |-> b] : b \in {<<1, 2>>, <<12>>}}
      \cup {[isBytes |-> FALSE, seq |-> <<49, 44, 50>>]}

KeyInputs == [password : KeyPasswords, salt : KeySalts]

\* generateCacheKey is called for an input; the call before it is kept
GenerateNext ==
    \E b \in KeyInputs :
       keyed' = [a |-> keyed.b, b |-> b,
                 keyA |-> keyed.keyB,
                 keyB |-> GenerateCacheKey(b.password, b.salt)]

KeyedInit ==
    LET none == [password |-> <<>>, salt |-> [isBytes |-> FALSE, seq |-> <<>>]]
    IN  keyed = [a |-> none, b |-> none, keyA |-> "", keyB |-> ""]

----------------------------------------------------------------------------
\* KeyCache (key-cache.js)

\* new KeyCache(300000)
defaultTTL == 300000

\* setInterval(() => this.cleanup(), 60000)
cleanupIntervalMs == 60000

CacheKeys == {"k1", "k2"}
CacheValues == {"key-a", "key-b"}

\* the ttl arguments of set (Undefined: left out) and the additionalTime
\* arguments of extend
TTLChoices == {Undefined, cleanupIntervalMs}
ExtendChoices == {cleanupIntervalMs}

\* steps of the clock
KCTickSteps == {cleanupIntervalMs}

\* null, where the caller expects a cached value
Absent == "null"

\* an entry counted as expired one millisecond early
ExpiredAtDeadline(item, t) == t >= item.expiresAt

\* Date.now() > item.expiresAt
Expired(item, t) == t > item.expiresAt

\* set(cacheKey, value, ttl = this.defaultTTL)
CacheSet(c, k, v, ttl, t) ==
    MapSet(c, k, [value |-> v,
                  expiresAt |-> t + (IF ttl = Undefined THEN defaultTTL ELSE ttl),
                  createdAt |-> t, hits |-> 0])

\* get(cacheKey): the map after the call and the value returned
CacheGet(c, k, t) ==
    IF k \notin DOMAIN c THEN [cache |-> c, ret |-> Absent]
    ELSE IF Expired(c[k], t) THEN [cache |-> MapDelete(c, k), ret |-> Absent]
    ELSE [cache |-> [c EXCEPT ![k].hits = @ + 1], ret |-> c[k].value]

\* the entries cleanup() deletes
ExpiredKeys(c, t) == {k \in DOMAIN c : Expired(c[k], t)}

\* a cleanup that stops after the first expired entry it deletes
CacheCleanupFirst(c, t) ==
    IF ExpiredKeys(c, t) = {} THEN [cache |-> c, ret |-> 0]
    ELSE [cache |-> MapDelete(c, CHOOSE k \in ExpiredKeys(c, t) : TRUE),
          ret |-> 1]

\* cleanup(): the map after the call and the number returned
CacheCleanup(c, t) ==
    [cache |-> [k \in (DOMAIN c) \ ExpiredKeys(c, t) |-> c[k]],
     ret |-> Cardinality(ExpiredKeys(c, t))]

RECURSIVE SumHits(_, _)
SumHits(c, ks) ==
    IF ks = {} THEN 0
    ELSE LET k == CHOOSE x \in ks : TRUE IN c[k].hits + SumHits(c, ks \ {k})

\* getStats(), without the formatted average
CacheStats(c, t) ==
    LET valid == {k \in DOMAIN c : t <= c[k].expiresAt} IN
    [totalEntries |-> Cardinality(DOMAIN c),
     validEntries |-> Cardinality(valid),
     expiredEntries |-> Cardinality(DOMAIN c) - Cardinality(valid),
     totalHits |-> SumHits(c, valid)]

\* getTimeToExpire(cacheKey)
TimeToExpire(c, k, t) ==
    IF k \notin DOMAIN c THEN Null
    ELSE IF c[k].expiresAt - t > 0 THEN c[k].expiresAt - t ELSE 0

\* extend(cacheKey, additionalTime): item.expiresAt += additionalTime
CacheExtend(c, k, additionalTime) ==
    IF k \notin DOMAIN c THEN c
    ELSE [c EXCEPT ![k].expiresAt = @ + additionalTime]

KCRet(op, k, ret, removed) == [op |-> op, key |-> k, ret |-> ret, removed |-> removed]

NoSet == [value |-> Absent, at |-> Null, ttl |-> Null, extended |-> 0]

\* the entries in map c and not in map d, each with its history
Removed(c, d, ls) == {[key |-> k, was |-> ls[k]] : k \in (DOMAIN c) \ (DOMAIN d)}

\* the history of the keys that have no entry any more is dropped
Forget(ls, c) == [k \in CacheKeys |-> IF k \in DOMAIN c THEN ls[k] ELSE NoSet]

KCSet ==
    \E k \in CacheKeys, v \in CacheValues, ttl \in TTLChoices :
       /\ cache' = CacheSet(cache, k, v, ttl, now)
       /\ kcRet' = KCRet("set", k, Undefined, {})
       /\ lastSet' = [lastSet EXCEPT ![k] =
                        [value |-> v, at |-> now,
                         ttl |-> IF ttl = Undefined THEN defaultTTL ELSE ttl,
                         extended |-> 0]]
       /\ UNCHANGED cleanupDue

KCGet(k) ==
    /\ (k \in DOMAIN cache /\ ~Expired(cache[k], now)) => cache[k].hits < MaxHits
    /\ cache' = CacheGet(cache, k, now).cache
    /\ kcRet' = KCRet("get", k, CacheGet(cache, k, now).ret,
                      Removed(cache, cache', lastSet))
    /\ lastSet' = Forget(lastSet, cache')
    /\ UNCHANGED cleanupDue

\* has(cacheKey): this.get(cacheKey) !== null
KCHas(k) ==
    /\ (k \in DOMAIN cache /\ ~Expired(cache[k], now)) => cache[k].hits < MaxHits
    /\ cache' = CacheGet(cache, k, now).cache
    /\ kcRet' = KCRet("has", k, CacheGet(cache, k, now).ret # Absent,
                      Removed(cache, cache', lastSet))
    /\ lastSet' = Forget(lastSet, cache')
    /\ UNCHANGED cleanupDue

KCDelete(k) ==
    /\ cache' = MapDelete(cache, k)
    /\ kcRet' = KCRet("delete", k, Undefined, Removed(cache, cache', lastSet))
    /\ lastSet' = Forget(lastSet, cache')
    /\ UNCHANGED cleanupDue

KCClear ==
    /\ cache' = <<>>
    /\ kcRet' = KCRet("clear", "", Undefined, Removed(cache, cache', lastSet))
    /\ lastSet' = Forget(lastSet, cache')
    /\ UNCHANGED cleanupDue

KCGetStats ==
    /\ kcRet' = KCRet("getStats", "", CacheStats(cache, now), {})
    /\ UNCHANGED <<cache, cleanupDue, lastSet>>

\* cleanup(), called by the application
KCCleanup ==
    /\ cache' = CacheCleanup(cache, now).cache
    /\ kcRet' = KCRet("cleanup", "", CacheCleanup(cache, now).ret,
                      Removed(cache, cache', lastSet))
    /\ lastSet' = Forget(lastSet, cache')
    /\ UNCHANGED cleanupDue

\* the interval's callback runs cleanup(); the application never calls
\* stopCleanup, so the interval runs as long as the page
KCSweep ==
    /\ cleanupDue <= now
    /\ cleanupDue' = cleanupDue + cleanupIntervalMs
    /\ cache' = CacheCleanup(cache, now).cache
    /\ kcRet' = KCRet("sweep", "", CacheCleanup(cache, now).ret,
                      Removed(cache, cache', lastSet))
    /\ lastSet' = Forget(lastSet, cache')

KCGetTimeToExpire(k) ==
    /\ kcRet' = KCRet("getTimeToExpire", k, TimeToExpire(cache, k, now), {})
    /\ UNCHANGED <<cache, cleanupDue, lastSet>>

KCExtend(k) ==
    \E additionalTime \in ExtendChoices :
       /\ lastSet[k].extended < MaxExtends
       /\ cache' = CacheExtend(cache, k, additionalTime)
       /\ kcRet' = KCRet("extend", k, k \in DOMAIN cache, {})
       /\ lastSet' = IF k \in DOMAIN cache
                        THEN [lastSet EXCEPT ![k].extended = @ + 1]
                        ELSE lastSet
       /\ UNCHANGED cleanupDue

\* the clock moves, not past the next run of the cleanup interval
KCTick ==
    /\ ticks < MaxCacheTicks
    /\ \E d \in KCTickSteps :
         /\ now + d <= cleanupDue
         /\ now' = now + d
    /\ ticks' = ticks + 1
    /\ kcRet' = KCRet("tick", "", Undefined, {})
    /\ UNCHANGED <<cache, cleanupDue, lastSet>>

KCInit ==
    /\ cache = <<>>
    /\ cleanupDue = cleanupIntervalMs
    /\ kcRet = KCRet("none", "", Undefined, {})
    /\ lastSet = [k \in CacheKeys |-> NoSet]

----------------------------------------------------------------------------
\* the variables of each component
rlVars == <<attempts, blockedUntil, rlResult, allowedLog, blockSetAt>>
smVars == <<sm, smLog>>
wmVars == <<workers, initialized, pendingOperations, operationId, opTimers, jobs,
            readyMsgs, suspended, promise, wmLog>>
kcVars == <<cache, cleanupDue, kcRet, lastSet>>
engineVars == <<sent, engine>>
proofVars == <<derived, challenges, proofs, zkDue, zkRet, zkLog, checked, aged, sealed,
              engineVars>>

----------------------------------------------------------------------------
\* ZKVault (zk-vault.js) with the security manager's rate limiter and session
\* monitor and the cachedCrypto singleton (key-cache.js)
\*
\* A salt is named by a number; the commitment and the key derived from the
\* vault's password and salt n are named by n as well.  An unlock attempt is
\* made with the vault's password (right) or with another one.

\* window.crypto.getRandomValues(new Uint8Array(16)): a salt that equals none
\* of the salts in use
SaltsInUse(v, calls) ==
    ({v.salt, v.commitment, v.masterKey, v.metaSalt, v.metaCommitment}
        \cup {c.salt : c \in calls}) \ {Null}

\* loadVaultMetadata()
LoadVaultMetadata(v) ==
    IF v.metaSalt # Null
      THEN [v EXCEPT !.salt = v.metaSalt, !.commitment = v.metaCommitment]
      ELSE v

\* init(): loads the metadata and renders the view for the state it finds
Render(v) ==
    LET v1 == LoadVaultMetadata(v) IN
    [v1 EXCEPT !.view = IF v1.isUnlocked THEN "unlocked"
                        ELSE IF v1.commitment = Null THEN "setup" ELSE "locked"]

\* a lockVault that leaves the session monitor running
StopSessionTimeoutSkipped(s) == s

\* stopSessionTimeout(): securityManager.stopSession()
StopSessionTimeout(s) == Stop(s)

\* startSessionTimeout(): securityManager.startSession(onTimeout, onWarning)
StartSessionTimeout(s, t) == Start(s, TRUE, t)

\* a lockVault that keeps the masterKey
LockVaultKeepsKey(v) ==
    Render([v EXCEPT !.isUnlocked = FALSE, !.vaultData = "empty"])

\* lockVault(), the vault's part
LockVault(v) ==
    Render([v EXCEPT !.isUnlocked = FALSE, !.masterKey = Null,
                     !.vaultData = "empty"])

\* a call that reached an await
VCall(fn, pc, right, salt) ==
    [fn |-> fn, pc |-> pc, right |-> right, salt |-> salt]

\* a call of function fn waits at an await
Waiting(fn) == \E c \in vCalls : c.fn = fn

VLogged(lockedBy) == [lockedBy |-> lockedBy]

\* the cache key and the key cachedCrypto holds for the vault's password and
\* salt
VaultCacheKey == "k1"
VaultCacheValue == "key-a"

\* createVault() up to its first await: the password checks pass, the salt
\* is drawn
VCreate ==
    /\ vault.view = "setup"
    /\ ~Waiting("create")
    /\ LET salt == FreeHandle(SaltsInUse(vault, vCalls)) IN
         /\ vault' = [vault EXCEPT !.salt = salt]
         /\ vCalls' = vCalls \cup {VCall("create", "proof",
                                         TRUE, salt)}
    /\ UNCHANGED vLog
    /\ UNCHANGED <<rlVars, sm, smLog, kcVars>>

\* createVault() after createVaultAccessProof: the commitment is kept, the
\* key derivation starts with this.salt
VCreateProof ==
    \E c \in vCalls :
       /\ c.fn = "create" /\ c.pc = "proof"
       /\ vault' = [vault EXCEPT !.commitment = c.salt]
       /\ vCalls' = IF vault.salt # Null
                       THEN (vCalls \ {c}) \cup
                              {VCall("create", "derive", TRUE, vault.salt)}
                       ELSE vCalls \ {c}
       /\ UNCHANGED vLog
       /\ UNCHANGED <<rlVars, sm, smLog, kcVars>>

\* createVault() after deriveKeyFromPassword: masterKey, saveVaultMetadata(),
\* isUnlocked = true, and the view is rendered again
VCreateDerive ==
    \E c \in vCalls :
       /\ c.fn = "create" /\ c.pc = "derive"
       /\ vault' = Render([vault EXCEPT !.masterKey = c.salt,
                                        !.metaSalt = vault.salt,
                                        !.metaCommitment = vault.commitment,
                                        !.isUnlocked = TRUE])
       /\ vCalls' = vCalls \ {c}
       /\ vLog' = VLogged("none")
       /\ UNCHANGED <<rlVars, sm, smLog, kcVars>>

\* an unlockVault that goes on whatever the rate limiter returned
VUnlockUnchecked ==
    /\ vault.view = "locked"
    /\ ~Waiting("unlock")
    /\ CheckLimit("vault-unlock")
    /\ \E right \in BOOLEAN :
         vCalls' = IF vault.salt # Null
                     THEN vCalls \cup {VCall("unlock", "proof",
                                            right, vault.salt)}
                     ELSE vCalls
    /\ UNCHANGED vLog
    /\ UNCHANGED <<vault, sm, smLog, kcVars>>

\* unlockVault() up to its first await: the rate limit is checked, and a
\* denied call returns
VUnlock ==
    /\ vault.view = "locked"
    /\ ~Waiting("unlock")
    /\ CheckLimit("vault-unlock")
    /\ \E right \in BOOLEAN :
         vCalls' = IF rlResult'["vault-unlock"].allowed /\ vault.salt # Null
                     THEN vCalls \cup {VCall("unlock", "proof",
                                            right, vault.salt)}
                     ELSE vCalls
    /\ UNCHANGED vLog
    /\ UNCHANGED <<vault, sm, smLog, kcVars>>

\* unlockVault() after createVaultAccessProof: verifyVaultAccessProof against
\* this.commitment; a valid proof resets the rate limit and starts the key
\* derivation with this.salt, an invalid one ends the call
VUnlockProof ==
    \E c \in vCalls :
       /\ c.fn = "unlock" /\ c.pc = "proof"
       /\ IF c.right /\ vault.commitment # Null /\ c.salt = vault.commitment
            THEN /\ Reset("vault-unlock")
                 /\ vCalls' = IF vault.salt # Null
                                 THEN (vCalls \ {c}) \cup
                                        {VCall("unlock", "derive", TRUE, vault.salt)}
                                 ELSE vCalls \ {c}
                 /\ UNCHANGED vLog
            ELSE /\ vCalls' = vCalls \ {c}
                 /\ UNCHANGED vLog
                 /\ UNCHANGED <<rlVars, now, ticks>>
       /\ UNCHANGED <<vault, sm, smLog, kcVars>>

\* unlockVault() after deriveKeyFromPassword: masterKey is set and
\* loadVaultData() starts
VUnlockDerive ==
    \E c \in vCalls :
       /\ c.fn = "unlock" /\ c.pc = "derive"
       /\ vault' = [vault EXCEPT !.masterKey = c.salt]
       /\ vCalls' = (vCalls \ {c}) \cup {VCall("unlock", "load", TRUE, c.salt)}
       /\ UNCHANGED vLog
       /\ UNCHANGED <<rlVars, sm, smLog, kcVars>>

\* unlockVault() after loadVaultData(): localStorage held no data, or data
\* that decrypted, or data whose decryption threw; unless it threw,
\* isUnlocked = true, the session starts and the view is rendered again
VUnlockLoad ==
    \E c \in vCalls, found \in {"none", "loaded", "failed"} :
       /\ c.fn = "unlock" /\ c.pc = "load"
       /\ vCalls' = vCalls \ {c}
       /\ IF found = "failed"
            THEN /\ UNCHANGED vLog
                 /\ UNCHANGED <<vault, sm>>
            ELSE /\ vault' = Render([vault EXCEPT
                                       !.vaultData = IF found = "loaded"
                                                       THEN "loaded" ELSE @,
                                       !.isUnlocked = TRUE])
                 /\ sm' = StartSessionTimeout(sm, now)
                 /\ vLog' = VLogged("none")
       /\ UNCHANGED <<rlVars, smLog, kcVars>>

\* lockVault(), from the button of the unlocked view
VLock ==
    /\ vault.view = "unlocked"
    /\ sm' = StopSessionTimeout(sm)
    /\ vault' = LockVault(vault)
    /\ vLog' = VLogged("lock")
    /\ UNCHANGED <<rlVars, smLog, kcVars, vCalls>>

\* the session's timeout timer runs: onTimeout is lockVault, then the
\* monitor stops itself
VSessionTimeout ==
    \E tm \in sm.timers :
       /\ tm.kind = "timeout"
       /\ tm.due <= now
       /\ sm' = AfterTimeout(StopSessionTimeout([sm EXCEPT !.timers = @ \ {tm}]))
       /\ vault' = LockVault(vault)
       /\ vLog' = VLogged("timeout")
       /\ UNCHANGED <<rlVars, smLog, kcVars, vCalls>>

\* the session's warning timer runs: onWarning shows a notification
VSessionWarning ==
    \E tm \in sm.timers :
       /\ tm.kind = "warning"
       /\ tm.due <= now
       /\ sm' = [sm EXCEPT !.timers = @ \ {tm}]
       /\ UNCHANGED vLog
       /\ UNCHANGED <<rlVars, smLog, kcVars, vault, vCalls>>

\* a mousedown, keydown, scroll, touchstart or mousemove event
VActivity ==
    /\ sm.listeners # {}
    /\ sm' = Dispatch(sm, Cardinality(sm.listeners), now)
    /\ UNCHANGED vLog
    /\ UNCHANGED <<rlVars, smLog, kcVars, vault, vCalls>>

\* resetVault(), confirmed, from the button of the locked view
VReset ==
    /\ vault.view = "locked"
    /\ vault' = Render([vault EXCEPT !.isUnlocked = FALSE, !.masterKey = Null,
                                     !.salt = Null, !.commitment = Null,
                                     !.vaultData = "empty",
                                     !.metaSalt = Null, !.metaCommitment = Null])
    /\ UNCHANGED vLog
    /\ UNCHANGED <<rlVars, sm, smLog, kcVars, vCalls>>

\* cachedCrypto.deriveKeyFromPassword(password, salt), called while the vault
\* is open: a cached key is returned, or the derivation starts
VCachedDerive ==
    LET got == CacheGet(cache, VaultCacheKey, now) IN
    /\ vault.isUnlocked
    /\ IF got.ret # Absent
         THEN /\ cache[VaultCacheKey].hits < MaxHits
              /\ UNCHANGED vCalls
         ELSE /\ ~Waiting("cached")
              /\ vCalls' = vCalls \cup {VCall("cached", "derive",
                                              TRUE, vault.salt)}
    /\ cache' = got.cache
    /\ lastSet' = Forget(lastSet, cache')
    /\ UNCHANGED <<rlVars, sm, smLog, vault, vLog, cleanupDue, kcRet>>

\* cachedCrypto.deriveKeyFromPassword after the derivation: the key is cached
VCachedDerived ==
    \E c \in vCalls :
       /\ c.fn = "cached"
       /\ vCalls' = vCalls \ {c}
       /\ cache' = CacheSet(cache, VaultCacheKey, VaultCacheValue, Undefined, now)
       /\ lastSet' = [lastSet EXCEPT ![VaultCacheKey] =
                        [value |-> VaultCacheValue, at |-> now, ttl |-> defaultTTL,
                         extended |-> 0]]
       /\ UNCHANGED <<rlVars, sm, smLog, vault, vLog, cleanupDue, kcRet>>

\* the last run of the cleanup interval before time t, given its next run
LastSweepBefore(due, t) ==
    due + ((t - 1 - due) \div cleanupIntervalMs) * cleanupIntervalMs

\* the clock moves while no call is waiting, not past the deadline of a
\* pending session timer
VTick ==
    /\ vCalls = {}
    /\ ticks < MaxVaultTicks
    /\ \E d \in SMTickSteps :
         /\ \A tm \in sm.timers : now + d <= tm.due
         /\ now' = now + d
    /\ ticks' = ticks + 1
    /\ UNCHANGED <<rlVars, sm, smLog, vault, vCalls, vLog>>

\* the runs of the cleanup interval that fall before the new time of the
\* clock have happened
SweptBefore ==
    /\ IF cleanupDue < now'
         THEN /\ cache' = CacheCleanup(cache, LastSweepBefore(cleanupDue, now')).cache
              /\ cleanupDue' = LastSweepBefore(cleanupDue, now') + cleanupIntervalMs
         ELSE UNCHANGED <<cache, cleanupDue>>
    /\ lastSet' = Forget(lastSet, cache')
    /\ UNCHANGED kcRet

VInit ==
    /\ vault = [isUnlocked |-> FALSE, masterKey |-> Null, vaultData |-> "empty",
                salt |-> Null, commitment |-> Null,
                metaSalt |-> Null, metaCommitment |-> Null, view |-> "setup"]
    /\ vCalls = {}
    /\ vLog = VLogged("none")

----------------------------------------------------------------------------
\* CachedCrypto.deriveKeyFromPassword (key-cache.js) in front of
\* e2eeCrypto.deriveKeyFromPassword (e2ee-crypto.js); this.keyCache is `cache`

\* e2eeCrypto.deriveKeyFromPassword(password, salt): PBKDF2 with 100000
\* iterations of SHA-256 to an AES-GCM 256 key
DeriveKeyFromPassword(password, salt) ==
    Pbkdf2(password, salt, pbkdf2Iterations)

\* the (password, salt) inputs derived: "Aa" and "BB" with the salt [1, 2],
\* and "Aa" with the salt [12]
DeriveInputs ==
    {[password |-> <<65, 97>>, salt |-> [isBytes |-> TRUE, seq |-> <<1, 2>>]],
     [password |-> <<66, 66>>, salt |-> [isBytes |-> TRUE, seq |-> <<1, 2>>]],
     [password |-> <<65, 97>>, salt |-> [isBytes |-> TRUE, seq |-> <<12>>]]}

CDLast(input, ret, from) == [input |-> input, ret |-> ret, from |-> from]

\* deriveKeyFromPassword(password, salt) up to its return or its await: a
\* cached key is returned, or the derivation starts; a derivation is not
\* asked for again while the same one is waiting
CDDerive ==
    \E input \in DeriveInputs :
       LET cacheKey == GenerateCacheKey(input.password, input.salt)
           got == CacheGet(cache, cacheKey, now)
       IN  /\ IF got.ret # Absent
                THEN /\ cache[cacheKey].hits < MaxHits
                     /\ derived' = [derived EXCEPT
                                      !.last = CDLast(input, got.ret, "cache")]
                ELSE /\ input \notin derived.waiting
                     /\ derived' = [derived EXCEPT !.waiting = @ \cup {input}]
           /\ cache' = got.cache
           /\ UNCHANGED <<cleanupDue, kcRet, lastSet>>

\* deriveKeyFromPassword after the await: the key is cached and returned
CDDerived ==
    \E input \in derived.waiting :
       LET cacheKey == GenerateCacheKey(input.password, input.salt)
           key == DeriveKeyFromPassword(input.password, input.salt)
       IN  /\ cache' = CacheSet(cache, cacheKey, key, Undefined, now)
           /\ derived' = [waiting |-> derived.waiting \ {input},
                          last |-> CDLast(input, key, "derived")]
           /\ UNCHANGED <<cleanupDue, kcRet, lastSet>>

\* clearCache()
CDClearCache ==
    /\ cache # <<>>
    /\ cache' = <<>>
    /\ UNCHANGED <<derived, cleanupDue, kcRet, lastSet>>

\* the clock moves while no derivation is waiting; the cleanup interval has
\* run when it was due
CDTick ==
    /\ derived.waiting = {}
    /\ ticks < MaxDeriveTicks
    /\ \E d \in {cleanupIntervalMs, defaultTTL} : now' = now + d
    /\ ticks' = ticks + 1
    /\ SweptBefore
    /\ UNCHANGED derived

CDInit ==
    derived = [waiting |-> {}, last |-> CDLast(Null, Null, "none")]

----------------------------------------------------------------------------
\* ZeroKnowledge (zero-knowledge.js): the challenge store and
\* verifyPasswordProof
\*
\* A JavaScript value that need not be a number is written as a string:
\* "undefined", "null", "true", "false", "''" for the empty string and the
\* text in quotes for any other string.

JSUndefined == "undefined"
JSTrue == "true"
JSFalse == "false"
JSEmptyString == "''"

\* ToBoolean(v)
Truthy(v) == v \notin {JSUndefined, "null", JSFalse, JSEmptyString}

\* a && b && c
AndChain(a, b, c) == IF ~Truthy(a) THEN a ELSE IF ~Truthy(b) THEN b ELSE c

\* age > 300000
challengeMaxAge == 300000

\* setInterval(..., 60000)
challengeSweepMs == 60000

\* the challengeIds: the hex of 32 random bytes, no two alike
ChallengeIds == 1..MaxChallenges

\* a challengeId no generateChallenge returned
UnknownId == 0

\* a proof object with these fields, and what stands for a proof that is
\* no object (null)
PasswordProof(commitment, response, salt) ==
    [isObject |-> TRUE, commitment |-> commitment, response |-> response,
     salt |-> salt]
NoProof ==
    [isObject |-> FALSE, commitment |-> JSUndefined, response |-> JSUndefined,
     salt |-> JSUndefined]

\* the proofs handed to verifyPasswordProof: a complete one, one without
\* each of commitment, response and salt, one whose salt is the empty
\* string, and null
PasswordProofs ==
    {PasswordProof("'c0'", "'f1'", "'5a'"),
     PasswordProof(JSUndefined, "'f1'", "'5a'"),
     PasswordProof("'c0'", JSUndefined, "'5a'"),
     PasswordProof("'c0'", "'f1'", JSUndefined),
     PasswordProof("'c0'", "'f1'", JSEmptyString),
     NoProof}

\* a challenge that is never found too old
ChallengeExpiredNever(data, t) == FALSE

\* age > 300000, with age = Date.now() - challengeData.timestamp
ChallengeExpired(data, t) == t - data.timestamp > challengeMaxAge

\* challengeData.verified = true
MarkVerified(ch, id) == [ch EXCEPT ![id].verified = TRUE]

\* the body of verifyPasswordProof: the stores after the call, the value
\* returned and whether the call threw past its catch
VerifyPasswordProof(ch, pr, proof, challengeId, t) ==
    IF challengeId \notin DOMAIN ch
      THEN [challenges |-> ch, proofs |-> pr, ret |-> JSFalse]
    ELSE IF ChallengeExpired(ch[challengeId], t)
      THEN [challenges |-> MapDelete(ch, challengeId), proofs |-> pr,
            ret |-> JSFalse]
    ELSE IF ~proof.isObject
      THEN [challenges |-> ch, proofs |-> pr, ret |-> JSFalse]
    ELSE LET isValid == AndChain(proof.commitment, proof.response, proof.salt)
         IN  IF Truthy(isValid)
               THEN [challenges |-> MarkVerified(ch, challengeId),
                     proofs |-> MapSet(pr, challengeId,
                                       [verified |-> TRUE, timestamp |-> t]),
                     ret |-> isValid]
               ELSE [challenges |-> ch, proofs |-> pr, ret |-> isValid]

\* clearExpiredChallenges() at time t
ClearExpiredChallenges(ch, t) ==
    [id \in {i \in DOMAIN ch : ~(t - ch[i].timestamp > challengeMaxAge)} |-> ch[id]]

ZKRet(op, proof, challengeId, ret, found, expired) ==
    [op |-> op, proof |-> proof, challengeId |-> challengeId, ret |-> ret,
     found |-> found, expired |-> expired]

\* generateChallenge(): the challengeId is one never issued before
ZKGenerateChallenge ==
    LET id == FreeHandle(zkLog.issued) IN
    /\ id \in ChallengeIds
    /\ challenges' = MapSet(challenges, id,
                            [timestamp |-> now, verified |-> FALSE])
    /\ zkLog' = [zkLog EXCEPT !.issued = @ \cup {id}]
    /\ UNCHANGED <<proofs, zkDue, zkRet>>

\* verifyPasswordProof(proof, challengeId, storedPasswordHash)
ZKVerifyPasswordProof(proof, challengeId) ==
    LET out == VerifyPasswordProof(challenges, proofs, proof, challengeId, now)
    IN  /\ challenges' = out.challenges
        /\ proofs' = out.proofs
        /\ zkRet' = ZKRet("verifyPasswordProof", proof, challengeId, out.ret,
                          challengeId \in DOMAIN challenges,
                          /\ challengeId \in DOMAIN challenges
                          /\ now - challenges[challengeId].timestamp
                               > challengeMaxAge)
        /\ zkLog' = IF Truthy(out.ret)
                      THEN [zkLog EXCEPT !.succeeded = @ \cup {challengeId}]
                      ELSE zkLog
        /\ UNCHANGED zkDue

\* the interval's callback: clearExpiredChallenges()
ZKSweep ==
    /\ zkDue <= now
    /\ zkDue' = zkDue + challengeSweepMs
    /\ challenges' = ClearExpiredChallenges(challenges, now)
    /\ UNCHANGED <<proofs, zkRet, zkLog>>

\* the last run of the interval before time t, given its next run
LastChallengeSweepBefore(due, t) ==
    due + ((t - 1 - due) \div challengeSweepMs) * challengeSweepMs

\* the clock moves; the runs of the interval that fall before its new time
\* have happened
ZKTick ==
    /\ ticks < MaxChallengeTicks
    /\ \E d \in {challengeSweepMs, challengeMaxAge} : now' = now + d
    /\ ticks' = ticks + 1
    /\ IF zkDue < now'
         THEN /\ challenges' = ClearExpiredChallenges(
                                  challenges, LastChallengeSweepBefore(zkDue, now'))
              /\ zkDue' = LastChallengeSweepBefore(zkDue, now') + challengeSweepMs
         ELSE UNCHANGED <<challenges, zkDue>>
    /\ UNCHANGED <<proofs, zkRet, zkLog>>

ZKInit ==
    /\ challenges = <<>>
    /\ proofs = <<>>
    /\ zkDue = challengeSweepMs
    /\ zkRet = ZKRet("none", NoProof, UnknownId, JSUndefined, FALSE, FALSE)
    /\ zkLog = [issued |-> {}, succeeded |-> {}]

----------------------------------------------------------------------------
\* ZeroKnowledge.verifyVaultAccessProof and verifyAgeProof (zero-knowledge.js)
\*
\* A timestamp is a number of milliseconds, or Undefined where the proof has
\* none.  A number computed from it is [nan, n]: NaN, or the number n.

\* age > 300000 in verifyVaultAccessProof
vaultProofMaxAge == 300000

\* age > 3600000 in verifyAgeProof
ageProofMaxAge == 3600000

\* Date.now() - proof.timestamp: undefined converts to NaN
NowMinus(t, timestamp) ==
    IF timestamp = Undefined THEN [nan |-> TRUE, n |-> 0]
    ELSE [nan |-> FALSE, n |-> t - timestamp]

\* x > limit: false when x is NaN
GreaterThan(x, limit) == ~x.nan /\ x.n > limit

\* const age = Date.now() - proof.timestamp; if (age > limit)
TooOld(t, timestamp, limit) == GreaterThan(NowMinus(t, timestamp), limit)

\* a vault access proof with these fields, and what stands for a proof that
\* is no object (null)
VaultProof(commitment, response, timestamp) ==
    [isObject |-> TRUE, commitment |-> commitment, response |-> response,
     timestamp |-> timestamp]
NoVaultProof ==
    [isObject |-> FALSE, commitment |-> JSUndefined, response |-> JSUndefined,
     timestamp |-> Undefined]

\* the timestamps a proof handed in at time t carries: none, the time the
\* page was loaded, and one millisecond ahead of the clock
Timestamps(t) == {Undefined, 0, t + 1}

\* verifyVaultAccessProof(proof, storedCommitment); reading a field of null
\* throws inside the try
VerifyVaultAccessProof(proof, storedCommitment, t) ==
    IF ~proof.isObject THEN FALSE
    ELSE IF ~Truthy(proof.commitment) \/ ~Truthy(proof.response) THEN FALSE
    ELSE IF TooOld(t, proof.timestamp, vaultProofMaxAge) THEN FALSE
    ELSE proof.commitment = storedCommitment

\* an age proof with these fields, and null
AgeProof(commitment, rangeProof, meetsRequirement, timestamp) ==
    [isObject |-> TRUE, commitment |-> commitment, rangeProof |-> rangeProof,
     meetsRequirement |-> meetsRequirement, timestamp |-> timestamp]
NoAgeProof ==
    [isObject |-> FALSE, commitment |-> JSUndefined, rangeProof |-> JSUndefined,
     meetsRequirement |-> JSUndefined, timestamp |-> Undefined]

\* verifyAgeProof(proof)
VerifyAgeProof(proof, t) ==
    IF ~proof.isObject THEN FALSE
    ELSE IF ~Truthy(proof.commitment) \/ ~Truthy(proof.rangeProof) THEN FALSE
    ELSE IF TooOld(t, proof.timestamp, ageProofMaxAge) THEN FALSE
    ELSE proof.meetsRequirement = JSTrue \/ proof.meetsRequirement = JSFalse

Checked(fn, proof, storedCommitment, ret) ==
    [fn |-> fn, proof |-> proof, storedCommitment |-> storedCommitment,
     ret |-> ret]

\* verifyVaultAccessProof is called with a proof and the vault's commitment
PVVerifyVaultAccessProof ==
    \E commitment \in {JSUndefined, JSEmptyString, "'c0'", "'c1'"},
       response \in {JSUndefined, "'f1'"},
       timestamp \in Timestamps(now),
       isObject \in BOOLEAN,
       storedCommitment \in {"'c0'", "null"} :
       LET proof == IF isObject
                      THEN VaultProof(commitment, response, timestamp)
                      ELSE NoVaultProof
       IN  checked' = Checked("verifyVaultAccessProof", proof, storedCommitment,
                              VerifyVaultAccessProof(proof, storedCommitment, now))

\* verifyAgeProof is called with a proof
PVVerifyAgeProof ==
    \E commitment \in {JSUndefined, "'c0'"},
       rangeProof \in {JSUndefined, "'a9'"},
       meetsRequirement \in {JSUndefined, JSTrue, JSFalse},
       timestamp \in Timestamps(now),
       isObject \in BOOLEAN :
       LET proof == IF isObject
                      THEN AgeProof(commitment, rangeProof, meetsRequirement,
                                    timestamp)
                      ELSE NoAgeProof
       IN  checked' = Checked("verifyAgeProof", proof, "null",
                              VerifyAgeProof(proof, now))

\* the clock moves by a millisecond, by 5 minutes or by an hour
PVTick ==
    /\ ticks < MaxVerifyTicks
    /\ \E d \in {1, vaultProofMaxAge, ageProofMaxAge} : now' = now + d
    /\ ticks' = ticks + 1
    /\ UNCHANGED checked

CheckedInit == checked = Checked("none", NoVaultProof, "null", FALSE)

----------------------------------------------------------------------------
\* ZeroKnowledge.createAgeProof (zero-knowledge.js)
\*
\* A Date is given by what getFullYear(), getMonth() (0 for January) and
\* getDate() return for it.

JSDate(year, month, date) == [year |-> year, month |-> month, date |-> date]

IsLeapYear(y) == (y % 4 = 0 /\ y % 100 # 0) \/ y % 400 = 0

\* the days of month m (0 for January) of year y
DaysInMonth(y, m) ==
    IF m = 1 THEN (IF IsLeapYear(y) THEN 29 ELSE 28)
    ELSE IF m \in {3, 5, 8, 10} THEN 30 ELSE 31

\* the day after d
NextDay(d) ==
    IF d.date < DaysInMonth(d.year, d.month)
      THEN JSDate(d.year, d.month, d.date + 1)
    ELSE IF d.month < 11 THEN JSDate(d.year, d.month + 1, 1)
    ELSE JSDate(d.year + 1, 0, 1)

\* the number of the day in the calendar: days from 1 January of year 0
RECURSIVE DaysBeforeMonth(_, _)
DaysBeforeMonth(y, m) ==
    IF m = 0 THEN 0 ELSE DaysBeforeMonth(y, m - 1) + DaysInMonth(y, m - 1)

DayNumber(d) ==
    365 * d.year + ((d.year + 3) \div 4) - ((d.year + 99) \div 100)
      + ((d.year + 399) \div 400)
      + DaysBeforeMonth(d.year, d.month) + (d.date - 1)

\* the day on which someone born on d completes n years: the same day of
\* the same month n years on, and 1 March where that year has no 29 February
BirthdayAfter(d, n) ==
    IF d.date <= DaysInMonth(d.year + n, d.month)
      THEN JSDate(d.year + n, d.month, d.date)
      ELSE JSDate(d.year + n, d.month + 1, 1)

\* a birthday counted as still to come on the day itself
BirthdayStillAheadOrToday(today, birthdate) ==
    LET monthDiff == today.month - birthdate.month IN
    monthDiff < 0 \/ (monthDiff = 0 /\ today.date <= birthdate.date)

\* monthDiff < 0 || (monthDiff === 0 && today.getDate() < birthdate.getDate())
BirthdayStillAhead(today, birthdate) ==
    LET monthDiff == today.month - birthdate.month IN
    monthDiff < 0 \/ (monthDiff = 0 /\ today.date < birthdate.date)

\* actualAge
ActualAge(today, birthdate) ==
    LET age == today.year - birthdate.year IN
    IF BirthdayStillAhead(today, birthdate) THEN age - 1 ELSE age

\* hashData: SHA-256 of the bytes
Sha256(data) == <<"SHA-256", data>>

\* createAgeProof(birthdate, minAge) on the day today at time t, with the
\* salt drawn
CreateAgeProof(birthdate, minAge, today, t, salt) ==
    LET actualAge == ActualAge(today, birthdate)
        commitment == Sha256(<<actualAge, salt>>)
        meetsRequirement == actualAge >= minAge
    IN  [commitment |-> commitment,
         rangeProof |-> Sha256(<<commitment, minAge,
                                 IF meetsRequirement THEN 1 ELSE 0>>),
         meetsRequirement |-> meetsRequirement,
         minAge |-> minAge,
         timestamp |-> t]

\* the days of the year tried: the first and the last, and the days around
\* the end of January and of February
DaysTried(y) ==
    {JSDate(y, 0, 1), JSDate(y, 0, 31), JSDate(y, 1, 1), JSDate(y, 1, 28),
     JSDate(y, 2, 1), JSDate(y, 11, 31)}
      \cup (IF IsLeapYear(y) THEN {JSDate(y, 1, 29)} ELSE {})

\* the dates of the clock and the birthdates tried
Todays == DaysTried(2023) \cup DaysTried(2024)
Birthdates == DaysTried(2004) \cup DaysTried(2005) \cup DaysTried(2006)

\* the minAge arguments tried
MinAges == {18, 19, 20}

\* createAgeProof is called for a birthdate and for the day after it
AGCreateAgeProof ==
    \E today \in Todays, birthdate \in Birthdates, minAge \in MinAges :
       aged' = [today |-> today, birthdate |-> birthdate, minAge |-> minAge,
                proof |-> CreateAgeProof(birthdate, minAge, today, now, 1),
                proofDayLater |-> CreateAgeProof(NextDay(birthdate), minAge,
                                                 today, now, 2)]

AgedInit ==
    aged = [today |-> JSDate(0, 0, 1), birthdate |-> JSDate(0, 0, 1),
            minAge |-> 0,
            proof |-> CreateAgeProof(JSDate(0, 0, 1), 0, JSDate(0, 0, 1), 0, 1),
            proofDayLater |-> CreateAgeProof(JSDate(0, 0, 2), 0, JSDate(0, 0, 1),
                                             0, 2)]

----------------------------------------------------------------------------
\* E2EECrypto.encryptMessage and decryptMessage (e2ee-crypto.js)
\*
\* A string is the sequence of its UTF-16 code units, a Uint8Array the
\* sequence of its bytes, a base64 text the sequence of its ASCII codes.

IsHighSurrogate(c) == c >= 55296 /\ c <= 56319
IsLowSurrogate(c) == c >= 56320 /\ c <= 57343

\* new TextEncoder().encode(str), from index i on: UTF-8, a surrogate
\* without its partner is written as U+FFFD
RECURSIVE Utf8Encode(_, _)
Utf8Encode(str, i) ==
    IF i > Len(str) THEN <<>>
    ELSE LET c == str[i] IN
      IF c < 128 THEN <<c>> \o Utf8Encode(str, i + 1)
      ELSE IF c < 2048
        THEN <<192 + (c \div 64), 128 + (c % 64)>> \o Utf8Encode(str, i + 1)
      ELSE IF IsHighSurrogate(c) /\ i < Len(str) /\ IsLowSurrogate(str[i + 1])
        THEN LET cp == 65536 + (c - 55296) * 1024 + (str[i + 1] - 56320) IN
             <<240 + (cp \div 262144), 128 + ((cp \div 4096) % 64),
               128 + ((cp \div 64) % 64), 128 + (cp % 64)>>
               \o Utf8Encode(str, i + 2)
      ELSE IF IsHighSurrogate(c) \/ IsLowSurrogate(c)
        THEN <<239, 191, 189>> \o Utf8Encode(str, i + 1)
      ELSE <<224 + (c \div 4096), 128 + ((c \div 64) % 64), 128 + (c % 64)>>
             \o Utf8Encode(str, i + 1)

\* byte i of bytes is a continuation byte
IsContinuation(bytes, i) ==
    i <= Len(bytes) /\ bytes[i] >= 128 /\ bytes[i] <= 191

\* the UTF-8 decoder from index i on: a byte that starts no well-formed
\* sequence gives U+FFFD
RECURSIVE Utf8DecodeFrom(_, _)
Utf8DecodeFrom(bytes, i) ==
    IF i > Len(bytes) THEN <<>>
    ELSE LET b == bytes[i] IN
      IF b < 128 THEN <<b>> \o Utf8DecodeFrom(bytes, i + 1)
      ELSE IF b >= 194 /\ b <= 223 /\ IsContinuation(bytes, i + 1)
        THEN <<(b - 192) * 64 + (bytes[i + 1] - 128)>>
               \o Utf8DecodeFrom(bytes, i + 2)
      ELSE IF /\ b >= 224 /\ b <= 239
              /\ IsContinuation(bytes, i + 1) /\ IsContinuation(bytes, i + 2)
              /\ (b = 224 => bytes[i + 1] >= 160)
              /\ (b = 237 => bytes[i + 1] < 160)
        THEN <<(b - 224) * 4096 + (bytes[i + 1] - 128) * 64
                 + (bytes[i + 2] - 128)>> \o Utf8DecodeFrom(bytes, i + 3)
      ELSE IF /\ b >= 240 /\ b <= 244
              /\ IsContinuation(bytes, i + 1) /\ IsContinuation(bytes, i + 2)
              /\ IsContinuation(bytes, i + 3)
              /\ (b = 240 => bytes[i + 1] >= 144)
              /\ (b = 244 => bytes[i + 1] < 144)
        THEN LET cp == (b - 240) * 262144 + (bytes[i + 1] - 128) * 4096
                         + (bytes[i + 2] - 128) * 64 + (bytes[i + 3] - 128)
             IN  <<55296 + ((cp - 65536) \div 1024),
                   56320 + ((cp - 65536) % 1024)>>
                   \o Utf8DecodeFrom(bytes, i + 4)
      ELSE <<65533>> \o Utf8DecodeFrom(bytes, i + 1)

\* new TextDecoder().decode(buffer): ignoreBOM is false, so a byte order
\* mark at the start is dropped
Utf8Decode(bytes) ==
    IF Len(bytes) >= 3 /\ bytes[1] = 239 /\ bytes[2] = 187 /\ bytes[3] = 191
      THEN Utf8DecodeFrom(bytes, 4)
      ELSE Utf8DecodeFrom(bytes, 1)

\* the base64 alphabet: A-Z, a-z, 0-9, + and /
Base64Alphabet ==
    [i \in 1..64 |-> IF i <= 26 THEN 64 + i
                     ELSE IF i <= 52 THEN 70 + i
                     ELSE IF i <= 62 THEN i - 5
                     ELSE IF i = 63 THEN 43 ELSE 47]

\* '='
Base64Pad == 61

\* btoa(String.fromCharCode(...bytes)), from index i on
RECURSIVE Btoa(_, _)
Btoa(bytes, i) ==
    LET left == Len(bytes) - i + 1 IN
    IF left <= 0 THEN <<>>
    ELSE IF left >= 3
      THEN LET n == bytes[i] * 65536 + bytes[i + 1] * 256 + bytes[i + 2] IN
           <<Base64Alphabet[(n \div 262144) + 1],
             Base64Alphabet[((n \div 4096) % 64) + 1],
             Base64Alphabet[((n \div 64) % 64) + 1],
             Base64Alphabet[(n % 64) + 1]>> \o Btoa(bytes, i + 3)
    ELSE IF left = 2
      THEN LET n == bytes[i] * 1024 + bytes[i + 1] * 4 IN
           <<Base64Alphabet[(n \div 4096) + 1],
             Base64Alphabet[((n \div 64) % 64) + 1],
             Base64Alphabet[(n % 64) + 1], Base64Pad>>
    ELSE LET n == bytes[i] * 16 IN
         <<Base64Alphabet[(n \div 64) + 1], Base64Alphabet[(n % 64) + 1],
           Base64Pad, Base64Pad>>

\* the value of a character of the alphabet
Base64Value(c) == (CHOOSE i \in 1..64 : Base64Alphabet[i] = c) - 1

IsBase64Char(c) == \E i \in 1..64 : Base64Alphabet[i] = c

\* ASCII whitespace: tab, line feed, form feed, carriage return, space
AsciiWhitespace == {9, 10, 12, 13, 32}

\* the bytes of the characters of text from index i on, four characters to
\* three bytes; the bits left over at the end are dropped
RECURSIVE Base64Bytes(_, _)
Base64Bytes(text, i) ==
    LET left == Len(text) - i + 1 IN
    IF left <= 0 THEN <<>>
    ELSE IF left >= 4
      THEN LET n == Base64Value(text[i]) * 262144
                      + Base64Value(text[i + 1]) * 4096
                      + Base64Value(text[i + 2]) * 64 + Base64Value(text[i + 3])
           IN  <<n \div 65536, (n \div 256) % 256, n % 256>>
                 \o Base64Bytes(text, i + 4)
    ELSE IF left = 3
      THEN LET n == Base64Value(text[i]) * 4096 + Base64Value(text[i + 1]) * 64
                      + Base64Value(text[i + 2])
           IN  <<n \div 1024, (n \div 4) % 256>>
    ELSE LET n == Base64Value(text[i]) * 64 + Base64Value(text[i + 1])
         IN  <<n \div 16>>

\* text without its trailing '=' (one or two), when its length is a
\* multiple of four
WithoutPadding(text) ==
    IF Len(text) % 4 # 0 \/ Len(text) = 0 THEN text
    ELSE IF text[Len(text)] # Base64Pad THEN text
    ELSE IF text[Len(text) - 1] # Base64Pad THEN SubSeq(text, 1, Len(text) - 1)
    ELSE SubSeq(text, 1, Len(text) - 2)

\* atob(text): the forgiving base64 decode; ok is FALSE where atob throws
Atob(text) ==
    LET stripped == SelectSeq(text, LAMBDA c : c \notin AsciiWhitespace)
        data == WithoutPadding(stripped)
    IN  IF Len(data) % 4 = 1 \/ \E i \in 1..Len(data) : ~IsBase64Char(data[i])
          THEN [ok |-> FALSE, bytes |-> <<>>]
          ELSE [ok |-> TRUE, bytes |-> Base64Bytes(data, 1)]

\* the AES-GCM tag: 16 bytes after the encrypted data
gcmTagBytes == 16

\* crypto.subtle.encrypt with AES-GCM: as many bytes as the data has, then
\* the tag.  The byte values stand for the real ones; which ciphertexts a
\* key accepts is said by GcmDecrypt.
GcmEncrypt(key, iv, data) ==
    [i \in 1..Len(data) |-> (data[i] + 7 * key + iv[1] + i) % 256]
      \o [j \in 1..gcmTagBytes |->
            (17 * key + iv[(j % Len(iv)) + 1] + 29 * j + Len(data)) % 256]

\* crypto.subtle.decrypt with AES-GCM: a key accepts the ciphertext it made
\* itself, under the iv it made it with, and nothing else; made is the
\* encryption that was performed
GcmDecrypt(key, iv, ciphertext, made) ==
    IF made.key = key /\ made.iv = iv /\ made.bytes = ciphertext
      THEN [ok |-> TRUE, data |-> made.data]
      ELSE [ok |-> FALSE, data |-> <<>>]

\* the envelope encryptMessage returns, and what stands for a value that is
\* no object (null)
Envelope(ciphertext, iv, timestamp) ==
    [isObject |-> TRUE, ciphertext |-> ciphertext, iv |-> iv,
     timestamp |-> timestamp]
NoEnvelope ==
    [isObject |-> FALSE, ciphertext |-> <<>>, iv |-> <<>>, timestamp |-> 0]

\* String(undefined), which atob is given for a field that is not there
UndefinedText == <<117, 110, 100, 101, 102, 105, 110, 101, 100>>

\* encryptMessage with one iv for every call
EncryptMessageFixedIv(message, key, iv, t) ==
    Envelope(Btoa(GcmEncrypt(key, [i \in 1..12 |-> 0], Utf8Encode(message, 1)), 1),
             Btoa([i \in 1..12 |-> 0], 1), t)

\* encryptMessage(message, key) with the iv drawn, at time t
EncryptMessage(message, key, iv, t) ==
    Envelope(Btoa(GcmEncrypt(key, iv, Utf8Encode(message, 1)), 1),
             Btoa(iv, 1), t)

\* the one error decryptMessage throws
decryptFailed == "Failed to decrypt message - invalid key or corrupted data"

E2Outcome(settled, value, error) ==
    [settled |-> settled, value |-> value, error |-> error]

\* decryptMessage(encryptedData, key); key is Undefined where the caller
\* passes no CryptoKey
DecryptMessage(encryptedData, key, made) ==
    LET ciphertext == Atob(encryptedData.ciphertext)
        iv == Atob(encryptedData.iv)
        decrypted == GcmDecrypt(key, iv.bytes, ciphertext.bytes, made)
    IN  IF /\ encryptedData.isObject
           /\ ciphertext.ok
           /\ iv.ok
           /\ key # Undefined
           /\ decrypted.ok
          THEN E2Outcome("resolved", Utf8Decode(decrypted.data), "")
          ELSE E2Outcome("rejected", <<>>, decryptFailed)

\* bit k of the ASCII code c is flipped
FlipBit(c, k) == IF (c \div (2 ^ k)) % 2 = 1 THEN c - 2 ^ k ELSE c + 2 ^ k

\* what is done to the envelope or the key between encryptMessage and
\* decryptMessage
Tamper(kind, field, pos, bit) ==
    [kind |-> kind, field |-> field, pos |-> pos, bit |-> bit]

\* the envelope handed to decryptMessage
Tampered(envelope, tamper) ==
    IF tamper.kind = "nullEnvelope" THEN NoEnvelope
    ELSE IF tamper.kind = "noCiphertext"
      THEN [envelope EXCEPT !.ciphertext = UndefinedText]
    ELSE IF tamper.kind = "noIv" THEN [envelope EXCEPT !.iv = UndefinedText]
    ELSE IF tamper.kind = "flip" /\ tamper.field = "ciphertext"
      THEN [envelope EXCEPT !.ciphertext[tamper.pos] = FlipBit(@, tamper.bit)]
    ELSE IF tamper.kind = "flip" /\ tamper.field = "iv"
      THEN [envelope EXCEPT !.iv[tamper.pos] = FlipBit(@, tamper.bit)]
    ELSE envelope

\* the key handed to decryptMessage: the other of the two keys, none, or
\* the key of the encryption
TamperedKey(key, tamper) ==
    IF tamper.kind = "wrongKey" THEN 3 - key
    ELSE IF tamper.kind = "noKey" THEN Undefined
    ELSE key

\* the code units messages are made of: 'a', U+FEFF, and the two halves of
\* U+1F600
PlainChars == {97, 65279, 55357, 56832}

\* the messages encrypted: every one of up to MaxPlainLen code units
Plaintexts == UNION {StringsOfLength(PlainChars, n) : n \in 0..MaxPlainLen}

\* the two keys, and the ivs crypto.getRandomValues draws
E2Keys == {1, 2}
E2Ivs == {[i \in 1..12 |-> i], [i \in 1..12 |-> 255 - i]}

\* encryptMessage(message, key): one message is encrypted in a run
E2Encrypt ==
    \E message \in Plaintexts, key \in E2Keys, iv \in E2Ivs :
       /\ sealed.phase = "none"
       /\ sealed' = [sealed EXCEPT
                       !.phase = "encrypted",
                       !.message = message,
                       !.made = [key |-> key, iv |-> iv,
                                 data |-> Utf8Encode(message, 1),
                                 bytes |-> GcmEncrypt(key, iv,
                                                      Utf8Encode(message, 1))],
                       !.envelope = EncryptMessage(message, key, iv, now)]

\* decryptMessage(encryptedData, key) with the envelope and the key as
\* they are handed in
E2DecryptWith(tamper) ==
    /\ sealed.phase = "encrypted"
    /\ sealed' = [sealed EXCEPT
                    !.phase = "decrypted",
                    !.tamper = tamper,
                    !.outcome = DecryptMessage(
                                   Tampered(sealed.envelope, tamper),
                                   TamperedKey(sealed.made.key, tamper),
                                   sealed.made)]

\* the envelope comes back as it was sent, with the key of the encryption
E2Decrypt == E2DecryptWith(Tamper("none", "", 0, 0))

\* the envelope comes back with one bit of its ciphertext or iv text flipped
E2DecryptFlipped ==
    \E field \in {"ciphertext", "iv"}, bit \in 0..7 :
       \E pos \in 1..Len(sealed.envelope[field]) :
          E2DecryptWith(Tamper("flip", field, pos, bit))

\* the envelope is null or lacks a field, or the key is another one or none
E2DecryptMalformed ==
    \E kind \in {"nullEnvelope", "noCiphertext", "noIv", "wrongKey", "noKey"} :
       E2DecryptWith(Tamper(kind, "", 0, 0))

SealedInit ==
    sealed = [phase |-> "none", message |-> <<>>,
              made |-> [key |-> 0, iv |-> <<>>, data |-> <<>>, bytes |-> <<>>],
              envelope |-> NoEnvelope, tamper |-> Tamper("none", "", 0, 0),
              outcome |-> E2Outcome("none", <<>>, "")]

----------------------------------------------------------------------------
\* E2EECrypto.encryptMessage (e2ee-crypto.js) called several times: the iv
\* of each call is what crypto.getRandomValues returns, and nothing keeps it
\* from returning the same twelve bytes again

\* what getRandomValues may return
IvDraws == E2Ivs \cup {[i \in 1..12 |-> 7 * i]}

\* the messages of these calls
SentMessages == {<<>>, <<97>>}

\* encryptMessage(message, key)
IVEncrypt ==
    \E message \in SentMessages, key \in E2Keys, iv \in IvDraws :
       /\ Len(sent) < MaxMessages
       /\ sent' = Append(sent, [key |-> key, drawn |-> iv,
                                envelope |-> EncryptMessage(message, key, iv, now)])

SentInit == sent = <<>>

----------------------------------------------------------------------------
\* E2EECrypto key pairs (e2ee-crypto.js) and the worker's generateKeyPair
\* (key-cache.js).  ECDH over P-256 is the exchange in the group of powers
\* of groupGenerator modulo groupModulus: a private key is an exponent d,
\* its public key the power x.

groupModulus == 11
groupGenerator == 2

RECURSIVE PowMod(_, _)
PowMod(x, d) == IF d = 0 THEN 1 ELSE (x * PowMod(x, d - 1)) % groupModulus

\* the private keys generateKey draws, and the points of the curve
Scalars == {1, 2, 3}
CurvePoints == 1..(groupModulus - 1)

\* a key: a CryptoKey or its JWK; d is there in a private key only
Key(form, type, crv, x, d) ==
    [form |-> form, type |-> type, crv |-> crv, x |-> x, d |-> d]

\* crypto.subtle.generateKey for ECDH P-256, extractable, with d drawn
GenerateKey(d) ==
    [publicKey |-> Key("CryptoKey", "public", "P-256", PowMod(groupGenerator, d), Undefined),
     privateKey |-> Key("CryptoKey", "private", "P-256", PowMod(groupGenerator, d), d)]

\* crypto.subtle.exportKey("jwk", key) of an extractable key
ExportJwk(key) == [key EXCEPT !.form = "jwk"]

\* whether importKey("jwk", jwk, ECDH P-256, true, []) takes the value: a
\* JWK of that curve with a point on it, and no private part (a private key
\* needs a usage)
ImportsAsPublic(jwk) ==
    /\ jwk.form = "jwk"
    /\ jwk.crv = "P-256"
    /\ jwk.x \in CurvePoints
    /\ jwk.d = Undefined

\* crypto.subtle.deriveKey with ECDH to an AES-GCM key
DeriveKey(privateKey, publicKey) ==
    [form |-> "CryptoKey", type |-> "secret", k |-> PowMod(publicKey.x, privateKey.d)]

\* generateFingerprint: the first 32 hex digits of the SHA-256 of the JWK
Fingerprint(publicKeyJwk) == <<"SHA-256", publicKeyJwk, 32>>

Users == {"alice", "bob"}

\* what a caller passes as the remote public key: public JWKs, one of
\* another curve, one whose point is not on the curve, a private JWK, null
RemoteJwks ==
    {ExportJwk(GenerateKey(d).publicKey) : d \in Scalars}
      \cup {Key("jwk", "public", "P-384", 4, Undefined),
            Key("jwk", "public", "P-256", 0, Undefined),
            ExportJwk(GenerateKey(2).privateKey),
            Key("null", "none", "", 0, Undefined)}

\* the fields of a returned or posted value that hold keys, and whether
\* one of them holds a private key
KeyFields == {"publicKey", "privateKey"}
ContainsPrivateKey(value) ==
    \E f \in DOMAIN value \cap KeyFields : value[f].d # Undefined

\* how a call settled
EngineRet(op, userId, settled, value, error) ==
    [op |-> op, userId |-> userId, settled |-> settled, value |-> value,
     error |-> error]
NoValue == [none |-> TRUE]

deriveFailed == "Failed to derive shared secret"
keyPairNotFound == "Key pair not found"

\* deriveSharedSecret(localUserId, remotePublicKeyJwk): what the caller
\* gets, and the cause where it failed; the catch turns every error thrown
\* in the try into the one it throws
DeriveSharedSecret(keyPairs, localUserId, remotePublicKeyJwk) ==
    IF localUserId \notin DOMAIN keyPairs
      THEN [ret |-> EngineRet("deriveSharedSecret", localUserId, "rejected",
                              NoValue, deriveFailed),
            cause |-> "unknownOwner"]
    ELSE IF ~ImportsAsPublic(remotePublicKeyJwk)
      THEN [ret |-> EngineRet("deriveSharedSecret", localUserId, "rejected",
                              NoValue, deriveFailed),
            cause |-> "invalidKey"]
    ELSE [ret |-> EngineRet("deriveSharedSecret", localUserId, "resolved",
                            [sharedSecret |->
                               DeriveKey(keyPairs[localUserId].privateKey,
                                         remotePublicKeyJwk)], ""),
          cause |-> "none"]

\* generateKeyPair(userId)
EGenerateKeyPair ==
    \E userId \in Users, d \in Scalars :
       LET keyPair == GenerateKey(d)
           publicKeyJwk == ExportJwk(keyPair.publicKey)
       IN  engine' = [engine EXCEPT
                        !.keyPairs = MapSet(engine.keyPairs, userId, keyPair),
                        !.ret = EngineRet("generateKeyPair", userId, "resolved",
                                          [userId |-> userId,
                                           publicKey |-> publicKeyJwk,
                                           privateKey |-> keyPair.privateKey,
                                           fingerprint |-> Fingerprint(publicKeyJwk)],
                                          "")]

\* deriveSharedSecret(localUserId, remotePublicKeyJwk)
EDeriveSharedSecret ==
    \E localUserId \in Users, remotePublicKeyJwk \in RemoteJwks :
       LET done == DeriveSharedSecret(engine.keyPairs, localUserId,
                                      remotePublicKeyJwk)
       IN  engine' = [engine EXCEPT
                        !.ret = done.ret,
                        !.failures =
                           IF done.cause = "none" THEN @
                           ELSE @ \cup {[cause |-> done.cause,
                                         error |-> done.ret.error]}]

\* exportKeyPair(userId)
EExportKeyPair ==
    \E userId \in Users :
       engine' = [engine EXCEPT
                    !.ret =
                       IF userId \notin DOMAIN engine.keyPairs
                         THEN EngineRet("exportKeyPair", userId, "rejected",
                                        NoValue, keyPairNotFound)
                         ELSE EngineRet("exportKeyPair", userId, "resolved",
                                [userId |-> userId,
                                 publicKey |-> ExportJwk(engine.keyPairs[userId].publicKey),
                                 privateKey |-> ExportJwk(engine.keyPairs[userId].privateKey),
                                 exportDate |-> now],
                                "")]

\* the worker's generateKeyPair, and the message its handler posts with the
\* result; id is the id of the request
EWorkerGenerateKeyPair ==
    \E id \in 1..MaxOps, d \in Scalars :
       LET keyPair == GenerateKey(d) IN
       engine' = [engine EXCEPT
                    !.posted = [id |-> id, success |-> TRUE,
                                result |-> [publicKey |-> ExportJwk(keyPair.publicKey),
                                            privateKey |-> ExportJwk(keyPair.privateKey)]]]

EngineInit ==
    engine = [keyPairs |-> <<>>,
              ret |-> EngineRet("none", "", "none", NoValue, ""),
              failures |-> {},
              posted |-> [id |-> 0, success |-> FALSE, result |-> NoValue]]

----------------------------------------------------------------------------
vars == <<now, ticks, attempts, blockedUntil, rlResult, allowedLog, blockSetAt,
          sm, smLog, workers, initialized, pendingOperations, operationId,
          opTimers, jobs, readyMsgs, suspended, promise, wmLog, offered, keyed,
          cache, cleanupDue, kcRet, lastSet,
          vault, vCalls, vLog,
          derived,
          challenges,
          proofs,
          zkDue,
          zkRet,
          zkLog,
          checked,
          aged,
          sealed,
          engineVars>>

vVars == <<vault, vCalls, vLog>>
laterVars == <<offered, keyed, kcVars, vVars, proofVars>>

RLInit ==
    /\ attempts = <<>>
    /\ blockedUntil = <<>>
    /\ rlResult = [id \in Identifiers |->
                     Result("none", FALSE, Undefined, Undefined, "none", "none", FALSE)]
    /\ allowedLog = [id \in Identifiers |-> {}]
    /\ blockSetAt = [id \in Identifiers |-> Null]

Init ==
    /\ now = 0
    /\ ticks = 0
    /\ RLInit
    /\ SMInit
    /\ WMInit
    /\ OfferedInit
    /\ KeyedInit
    /\ KCInit
    /\ VInit
    /\ CDInit
    /\ ZKInit
    /\ CheckedInit
    /\ AgedInit
    /\ SealedInit
    /\ SentInit
    /\ EngineInit

SMNext ==
    \/ (SMStart /\ UNCHANGED <<now, ticks, rlVars, wmVars, laterVars>>)
    \/ (SMStop /\ UNCHANGED <<now, ticks, rlVars, wmVars, laterVars>>)
    \/ (SMActivity /\ UNCHANGED <<now, ticks, rlVars, wmVars, laterVars>>)
    \/ (SMExtend /\ UNCHANGED <<now, ticks, rlVars, wmVars, laterVars>>)
    \/ (SMSetTimeout /\ UNCHANGED <<now, ticks, rlVars, wmVars, laterVars>>)
    \/ (SMFireTimeout /\ UNCHANGED <<now, ticks, rlVars, wmVars, laterVars>>)
    \/ (SMFireWarning /\ UNCHANGED <<now, ticks, rlVars, wmVars, laterVars>>)
    \/ (SMTick /\ UNCHANGED <<rlVars, wmVars, laterVars>>)

SpecSM == Init /\ [][SMNext]_vars

WMNext ==
    \/ (WMInitialize /\ UNCHANGED <<now, ticks, rlVars, smVars, laterVars>>)
    \/ (WMExecute /\ UNCHANGED <<now, ticks, rlVars, smVars, laterVars>>)
    \/ (WMExecuteInit /\ UNCHANGED <<now, ticks, rlVars, smVars, laterVars>>)
    \/ (WMExecuteResume /\ UNCHANGED <<now, ticks, rlVars, smVars, laterVars>>)
    \/ (WMReady /\ UNCHANGED <<now, ticks, rlVars, smVars, laterVars>>)
    \/ (WMResponse /\ UNCHANGED <<now, ticks, rlVars, smVars, laterVars>>)
    \/ (WMTimeout /\ UNCHANGED <<now, ticks, rlVars, smVars, laterVars>>)
    \/ (WMTerminate /\ UNCHANGED <<now, ticks, rlVars, smVars, laterVars>>)
    \/ (WMTick /\ UNCHANGED <<rlVars, smVars, laterVars>>)

SpecWM == Init /\ [][WMNext]_vars

\* the identifier the vault's unlock flow passes (zk-vault.js)
VaultUnlock == {"vault-unlock"}

RLNext ==
    \/ \E id \in VaultUnlock : (CheckLimit(id) /\ UNCHANGED <<smVars, wmVars, laterVars>>)
    \/ \E id \in VaultUnlock : (Reset(id) /\ UNCHANGED <<smVars, wmVars, laterVars>>)
    \/ (RLTick /\ UNCHANGED <<smVars, wmVars, laterVars>>)

SpecRL == Init /\ [][RLNext]_vars

InlineNext ==
    RunBoth /\ UNCHANGED <<now, ticks, rlVars, smVars, wmVars, keyed, kcVars,
                            vVars, proofVars>>

SpecInline == Init /\ [][InlineNext]_vars

KeyNext ==
    GenerateNext /\ UNCHANGED <<now, ticks, rlVars, smVars, wmVars, offered,
                                 kcVars, vVars, proofVars>>

SpecKey == Init /\ [][KeyNext]_vars

kcFrame == <<rlVars, smVars, wmVars, offered, keyed, vVars, proofVars>>

KCNext ==
    \/ (KCSet /\ UNCHANGED <<now, ticks, kcFrame>>)
    \/ \E k \in CacheKeys : (KCGet(k) /\ UNCHANGED <<now, ticks, kcFrame>>)
    \/ \E k \in CacheKeys : (KCHas(k) /\ UNCHANGED <<now, ticks, kcFrame>>)
    \/ \E k \in CacheKeys : (KCDelete(k) /\ UNCHANGED <<now, ticks, kcFrame>>)
    \/ (KCClear /\ UNCHANGED <<now, ticks, kcFrame>>)
    \/ (KCGetStats /\ UNCHANGED <<now, ticks, kcFrame>>)
    \/ (KCCleanup /\ UNCHANGED <<now, ticks, kcFrame>>)
    \/ (KCSweep /\ UNCHANGED <<now, ticks, kcFrame>>)
    \/ \E k \in CacheKeys : (KCGetTimeToExpire(k) /\ UNCHANGED <<now, ticks, kcFrame>>)
    \/ \E k \in CacheKeys : (KCExtend(k) /\ UNCHANGED <<now, ticks, kcFrame>>)
    \/ (KCTick /\ UNCHANGED kcFrame)

SpecKC == Init /\ [][KCNext]_vars

vFrame == <<wmVars, offered, keyed, proofVars>>

\* the steps of the vault that leave the clock alone
VStep ==
    \/ VCreate
    \/ VCreateProof
    \/ VCreateDerive
    \/ VUnlock
    \/ VUnlockProof
    \/ VUnlockDerive
    \/ VUnlockLoad
    \/ VLock
    \/ VSessionTimeout
    \/ VSessionWarning
    \/ VActivity
    \/ VReset

\* the vault as the application runs it: nothing calls cachedCrypto
VNext ==
    \/ (VStep /\ UNCHANGED <<now, ticks, vFrame>>)
    \/ (VTick /\ UNCHANGED <<kcVars, vFrame>>)

SpecV == Init /\ [][VNext]_vars

\* the vault, with keys derived through cachedCrypto while it is open
VCachedNext ==
    \/ (VStep /\ UNCHANGED <<now, ticks, vFrame>>)
    \/ (VCachedDerive /\ UNCHANGED <<now, ticks, vFrame>>)
    \/ (VCachedDerived /\ UNCHANGED <<now, ticks, vFrame>>)
    \/ (KCSweep /\ UNCHANGED <<now, ticks, vFrame, rlVars, smVars, vVars>>)
    \/ (VTick /\ SweptBefore /\ UNCHANGED vFrame)

SpecVCached == Init /\ [][VCachedNext]_vars

zkVars == <<challenges, proofs, zkDue, zkRet, zkLog>>

cdFrame == <<rlVars, smVars, wmVars, offered, keyed, vVars, zkVars, checked,
             aged,
             sealed, engineVars>>

CDNext ==
    \/ (CDDerive /\ UNCHANGED <<now, ticks, cdFrame>>)
    \/ (CDDerived /\ UNCHANGED <<now, ticks, cdFrame>>)
    \/ (CDClearCache /\ UNCHANGED <<now, ticks, cdFrame>>)
    \/ (CDTick /\ UNCHANGED cdFrame)

SpecCD == Init /\ [][CDNext]_vars

zkFrame == <<rlVars, smVars, wmVars, offered, keyed, kcVars, vVars, derived,
             checked, aged,
             sealed, engineVars>>

ZKNext ==
    \/ (ZKGenerateChallenge /\ UNCHANGED <<now, ticks, zkFrame>>)
    \/ \E proof \in PasswordProofs, id \in ChallengeIds \cup {UnknownId} :
          (ZKVerifyPasswordProof(proof, id) /\ UNCHANGED <<now, ticks, zkFrame>>)
    \/ (ZKSweep /\ UNCHANGED <<now, ticks, zkFrame>>)
    \/ (ZKTick /\ UNCHANGED zkFrame)

SpecZK == Init /\ [][ZKNext]_vars

pvFrame == <<rlVars, smVars, wmVars, offered, keyed, kcVars, vVars, derived,
             zkVars, aged,
             sealed, engineVars>>

PVNext ==
    \/ (PVVerifyVaultAccessProof /\ UNCHANGED <<now, ticks, pvFrame>>)
    \/ (PVVerifyAgeProof /\ UNCHANGED <<now, ticks, pvFrame>>)
    \/ (PVTick /\ UNCHANGED pvFrame)

SpecPV == Init /\ [][PVNext]_vars

AGNext ==
    AGCreateAgeProof /\ UNCHANGED <<now, ticks, rlVars, smVars, wmVars, offered,
                                    keyed, kcVars, vVars, derived, zkVars,
                                    checked, sealed, engineVars>>

SpecAge == Init /\ [][AGNext]_vars

e2Frame == <<now, ticks, rlVars, smVars, wmVars, offered, keyed, kcVars, vVars,
             derived, zkVars, checked, aged, engineVars>>

E2Next ==
    \/ (E2Encrypt /\ UNCHANGED e2Frame)
    \/ (E2Decrypt /\ UNCHANGED e2Frame)
    \/ (E2DecryptFlipped /\ UNCHANGED e2Frame)
    \/ (E2DecryptMalformed /\ UNCHANGED e2Frame)

SpecE2EE == Init /\ [][E2Next]_vars

IVNext ==
    IVEncrypt /\ UNCHANGED <<now, ticks, rlVars, smVars, wmVars, offered, keyed,
                             kcVars, vVars, derived, zkVars, checked, aged,
                             sealed, engine>>

SpecIV == Init /\ [][IVNext]_vars

engineFrame == <<now, ticks, rlVars, smVars, wmVars, offered, keyed, kcVars,
                 vVars, derived, zkVars, checked, aged, sealed, sent>>

EngineNext ==
    \/ (EGenerateKeyPair /\ UNCHANGED engineFrame)
    \/ (EDeriveSharedSecret /\ UNCHANGED engineFrame)
    \/ (EExportKeyPair /\ UNCHANGED engineFrame)
    \/ (EWorkerGenerateKeyPair /\ UNCHANGED engineFrame)

SpecEngine == Init /\ [][EngineNext]_vars

\* the rate limiter as several callers share it: one identifier each
RLPairNext ==
    \/ \E id \in Identifiers : (CheckLimit(id) /\ UNCHANGED <<smVars, wmVars, laterVars>>)
    \/ \E id \in Identifiers : (Reset(id) /\ UNCHANGED <<smVars, wmVars, laterVars>>)
    \/ (RLPairTick /\ UNCHANGED <<smVars, wmVars, laterVars>>)

SpecRLPair == Init /\ [][RLPairNext]_vars

\* the vault with its timers run by the event loop: a session timer that is
\* due runs
SpecVLive ==
    SpecV /\ WF_vars(VSessionTimeout /\ UNCHANGED <<now, ticks, vFrame>>)

----------------------------------------------------------------------------
\* Rate limiter: properties

\* C1: for an identifier with no reset in between, once maxAttempts calls of
\* checkLimit have been allowed within the last windowMs, the next checkLimit
\* on it returns allowed = false with retryAfter > 0.
C1_NextCallDenied ==
    [][\A id \in Identifiers :
         (CheckLimit(id) /\ Cardinality(allowedLog[id]) >= maxAttempts)
           => (rlResult'[id].allowed = FALSE /\ rlResult'[id].retryAfter > 0)]_vars

\* the call after maxAttempts allowed calls spread over the window was denied
C1_Witness ==
    \E id \in Identifiers :
       /\ rlResult[id].op = "checkLimit" /\ ~rlResult[id].allowed
       /\ rlResult[id].after = "allowed"
       /\ Cardinality(allowedLog[id]) = maxAttempts
       /\ Cardinality({e[1] : e \in allowedLog[id]}) > 1

\* C2: once checkLimit sets a block at time t, every checkLimit on that
\* identifier made before t + windowMs is denied and counts no attempt,
\* unless a reset came in between.
C2_BlockLastsFullWindow ==
    [][\A id \in Identifiers :
         (CheckLimit(id) /\ blockSetAt[id] # Null /\ now < blockSetAt[id] + windowMs)
           => (rlResult'[id].allowed = FALSE /\ attempts' = attempts)]_vars

\* a call was denied in the last half second of a block
C2_Witness ==
    \E id \in Identifiers :
       /\ rlResult[id].branch = "blocked"
       /\ blockSetAt[id] # Null
       /\ now - blockSetAt[id] > 0
       /\ blockSetAt[id] + windowMs - now <= 500

\* C3: reset leaves the identifier without attempts and without block, whatever
\* its state was, and the checkLimit that follows the reset returns
\* allowed = true with attemptsLeft = maxAttempts - 1.
C3_ResetClears ==
    [][\A id \in Identifiers :
         /\ Reset(id) => (id \notin DOMAIN attempts' /\ id \notin DOMAIN blockedUntil')
         /\ (rlResult[id].op = "reset" /\ CheckLimit(id))
              => (rlResult'[id].allowed = TRUE
                  /\ rlResult'[id].attemptsLeft = maxAttempts - 1)]_vars

\* a call was allowed right after a reset that lifted an active block
C3_Witness ==
    \E id \in Identifiers :
       /\ rlResult[id].branch = "allowed"
       /\ rlResult[id].after = "reset"
       /\ rlResult[id].resetInBlock

\* C4: a checkLimit made during a block returns allowed = false with retryAfter
\* the remaining block time rounded up to whole seconds, between 1 and
\* ceil(windowMs / 1000), and changes neither the attempts nor the block.
C4_BlockedCallReportsRemaining ==
    [][\A id \in Identifiers :
         (CheckLimit(id) /\ id \in DOMAIN blockedUntil /\ now < blockedUntil[id])
           => LET remaining == blockedUntil[id] - now
                  r == rlResult'[id].retryAfter
              IN /\ rlResult'[id].allowed = FALSE
                 /\ r * 1000 >= remaining
                 /\ (r - 1) * 1000 < remaining
                 /\ r >= 1
                 /\ r * 1000 < windowMs + 1000
                 /\ attempts' = attempts
                 /\ blockedUntil' = blockedUntil]_vars

\* a blocked call with half a second of the block left reported 1 second
C4_Witness ==
    \E id \in Identifiers :
       /\ rlResult[id].branch = "blocked"
       /\ id \in DOMAIN blockedUntil
       /\ blockedUntil[id] - now = 500
       /\ rlResult[id].retryAfter = 1

----------------------------------------------------------------------------
\* Session monitor: properties

TimeoutTimers(s) == {tm \in s.timers : tm.kind = "timeout"}
WarningTimers(s) == {tm \in s.timers : tm.kind = "warning"}

\* one timeout timer is pending, due a full timeoutMs after the last reset
Armed(s) ==
    /\ Cardinality(TimeoutTimers(s)) = 1
    /\ \A tm \in TimeoutTimers(s) : tm.due = s.lastActivity + s.timeoutMs

\* C5: after start, when timeoutMs pass without activity, resetTimeout, stop or
\* another start, onTimeout is invoked exactly once: while the monitor is
\* active the timeout timer is pending with its deadline timeoutMs after the
\* last reset and the clock has not passed it, the timer's callback invokes
\* onTimeout at that deadline, and onTimeout is invoked at most once per start.
C5_TimeoutOncePerStart ==
    [][/\ sm'.isActive => (Armed(sm') /\ now' <= sm'.lastActivity + sm'.timeoutMs)
       /\ smLog'.timeoutCalls <= 1
       /\ SMFireTimeout => /\ smLog'.timeoutCalls = smLog.timeoutCalls + 1
                           /\ now = sm.lastActivity + sm.timeoutMs]_vars

\* onTimeout ran once, a full default timeout after a start with no reset since
C5_Witness ==
    /\ smLog.last = "timeout"
    /\ smLog.timeoutCalls = 1
    /\ smLog.firedDue = now
    /\ now = sm.lastActivity + defaultTimeoutMs
    /\ sm.timeoutMs = defaultTimeoutMs

\* C6: an activity signal, extend or resetTimeout at time s while the monitor
\* is active leaves exactly one timeout timer, due at s + timeoutMs, and, when a
\* warning callback is set and timeoutMs exceeds the warning lead, exactly one
\* warning timer, due at s + timeoutMs - warningTime (otherwise none); onTimeout
\* and onWarning run at those deadlines, not before.
C6_ActivityPostponesByFullTimeout ==
    [][/\ ((SMActivity \/ SMExtend) /\ sm.isActive) =>
            /\ sm'.lastActivity = now
            /\ Cardinality(TimeoutTimers(sm')) = 1
            /\ \A tm \in TimeoutTimers(sm') : tm.due = now + sm.timeoutMs
            /\ IF sm.onWarning /\ sm.timeoutMs > warningTime
                 THEN /\ Cardinality(WarningTimers(sm')) = 1
                      /\ \A tm \in WarningTimers(sm') :
                            tm.due = now + sm.timeoutMs - warningTime
                 ELSE WarningTimers(sm') = {}
       /\ SMFireTimeout => now = sm.lastActivity + sm.timeoutMs
       /\ SMFireWarning => now = sm.lastActivity + sm.timeoutMs - warningTime]_vars

\* an activity signal after the warning postponed both deadlines
C6_Witness ==
    /\ smLog.last = "activity"
    /\ sm.isActive
    /\ smLog.warningCalls = 1
    /\ now > 0
    /\ \E tm \in sm.timers : tm.kind = "timeout" /\ tm.due = now + sm.timeoutMs
    /\ \E tm \in sm.timers : tm.kind = "warning"
                             /\ tm.due = now + sm.timeoutMs - warningTime

\* C7: at most one timeout timer and at most one warning timer are pending,
\* each pending timer is the one its handle field names (a timer that
\* resetTimeout or stop cancelled is gone), and a timer that runs is the one
\* the latest resetTimeout scheduled.
C7_OneTimerPerKind ==
    [][/\ Cardinality(TimeoutTimers(sm')) <= 1
       /\ Cardinality(WarningTimers(sm')) <= 1
       /\ \A tm \in TimeoutTimers(sm') : tm.id = sm'.timeoutId
       /\ \A tm \in WarningTimers(sm') : tm.id = sm'.warningId
       /\ SMFireTimeout => smLog'.firedDue = sm.lastActivity + sm.timeoutMs
       /\ SMFireWarning => smLog'.firedDue = sm.lastActivity + sm.timeoutMs - warningTime]_vars

\* an activity signal arrived at the very deadline of the timeout timer and
\* replaced it before its callback ran
C7_Witness ==
    /\ smLog.last = "activity"
    /\ smLog.cancelledDue = now
    /\ now > 0
    /\ Cardinality(TimeoutTimers(sm)) = 1
    /\ \A tm \in sm.timers : tm.due > now

\* C8: the timeout timer's callback invokes onTimeout and leaves the monitor
\* inactive with no timer; from then on activity, extend and setTimeout schedule
\* nothing, and onTimeout runs again only after another start.
C8_NoAutoRestart ==
    [][/\ SMFireTimeout => /\ smLog'.timeoutCalls = smLog.timeoutCalls + 1
                           /\ ~sm'.isActive
                           /\ sm'.timers = {}
       /\ (~sm.isActive /\ (SMActivity \/ SMExtend \/ SMSetTimeout)) =>
            (~sm'.isActive /\ sm'.timers = {})
       /\ SMFireTimeout => smLog.timeoutCalls = 0]_vars

\* an activity signal reached the monitor after the timeout had stopped it
C8_Witness ==
    /\ smLog.last = "activity"
    /\ smLog.timeoutCalls = 1
    /\ ~sm.isActive
    /\ sm.timers = {}

\* C9: an inactive monitor has no pending timer: stop leaves none, a second stop
\* changes nothing, resetTimeout on an inactive monitor schedules nothing, and
\* a callback runs only while the monitor is active.
C9_InactiveHasNoTimer ==
    [][/\ ~sm'.isActive => sm'.timers = {}
       /\ SMStop => (~sm'.isActive /\ sm'.timers = {}
                     /\ sm'.timeoutId = Null /\ sm'.warningId = Null)
       /\ (SMStop /\ smLog.last = "stop") => sm' = sm
       /\ (SMFireTimeout \/ SMFireWarning) => sm.isActive]_vars

\* extend was called on a monitor that stop (not the timeout) had stopped
C9_Witness ==
    /\ smLog.last = "extend"
    /\ sm.onTimeout
    /\ smLog.timeoutCalls = 0
    /\ ~sm.isActive
    /\ sm.timers = {}

----------------------------------------------------------------------------
\* Worker pool dispatcher: properties

\* C10: terminate leaves the pending-operation map empty and rejects every
\* operation that was in flight with a pool-terminated error; none of them
\* stays pending and none is rejected as a timeout later.
C10_TerminateRejectsInFlight ==
    [][/\ WMTerminate =>
            /\ pendingOperations' = <<>>
            /\ \A i \in DOMAIN pendingOperations :
                  promise'[i].state = "rejected: terminated"
       /\ \A i \in wmLog'.interrupted :
             promise'[i].state \notin {"pending", "rejected: timeout"}]_vars

\* C11: an operation dispatched to a worker is settled exactly once: resolve or
\* reject is called at most once on it, and as long as it is not settled its
\* pending entry and its timer exist; a response for operation i cancels i's
\* timer, frees i's worker and settles only i, whatever the order of arrival.
C11_SettledOnce ==
    [][/\ \A i \in DOMAIN promise' :
             /\ promise'[i].settleCalls <= 1
             /\ (promise'[i].state = "pending") <=> (promise'[i].settleCalls = 0)
             /\ (promise'[i].state = "pending") <=> (i \in DOMAIN pendingOperations')
             /\ (promise'[i].state = "pending") <=> (\E tm \in opTimers' : tm.op = i)
       /\ WMResponse =>
            \A job \in jobs \ jobs' :
               job.op \in DOMAIN pendingOperations =>
                 /\ \A tm \in opTimers' : tm.op # job.op
                 /\ promise'[job.op].state \in {"resolved", "rejected: error"}
                 /\ ~workers'[job.worker].busy
                 /\ \A i \in (DOMAIN promise) \ {job.op} : promise'[i] = promise[i]
                 /\ \A k \in 1..Len(workers) :
                       k # job.worker => workers'[k] = workers[k]
                 /\ DOMAIN pendingOperations' = (DOMAIN pendingOperations) \ {job.op}]_vars

\* of two operations in flight, the second was answered first
C11_Witness ==
    /\ wmLog.last = "response"
    /\ DOMAIN promise = {0, 1}
    /\ promise[0].state = "pending"
    /\ promise[1].state \in {"resolved", "rejected: error"}
    /\ Len(workers) = 2
    /\ workers[1].busy /\ ~workers[2].busy

\* C12: when the timer of a dispatched operation runs, the call is rejected
\* with the timeout error, its pending entry is removed and its worker is
\* marked idle; a response that arrives for an operation already settled
\* settles nothing and changes no busy flag.
C12_TimeoutRejectsAndFrees ==
    [][/\ WMTimeout =>
            \A tm \in opTimers \ opTimers' :
               /\ promise[tm.op].state = "pending"
               /\ promise'[tm.op].state = "rejected: timeout"
               /\ tm.op \notin DOMAIN pendingOperations'
               /\ tm.live => ~workers'[tm.worker].busy
       /\ WMResponse =>
            \A job \in jobs \ jobs' :
               promise[job.op].state # "pending" =>
                  UNCHANGED <<workers, promise, pendingOperations, opTimers>>]_vars

\* a response arrived for an operation that had timed out, while its worker
\* was busy with a newer operation
C12_Witness ==
    /\ wmLog.last = "late response"
    /\ \E i \in DOMAIN promise : promise[i].state = "rejected: timeout"
    /\ \E k \in 1..Len(workers) : workers[k].busy

\* C13: once an initialize has ended with no worker, no later execute tries to
\* create workers again and every later execute runs inline.
C13_DegradedPermanently ==
    [][wmLog.degraded =>
         /\ ~WMExecuteInit
         /\ (WMExecute \/ WMExecuteResume) => wmLog'.last = "inline"]_vars

\* C14: for each of the six operation types and every payload, running the
\* request inline gives the result the worker gives for it.
C14_InlineEqualsWorker ==
    offered.type \in OfferedTypes => offered.inline = offered.worker

\* C15: an execute that finds workers but none idle runs inline at once: it
\* adds no pending entry, no timer and no request, and changes no busy flag.
C15_NeverQueues ==
    [][((WMExecute \/ WMExecuteResume)
          /\ Len(workers) > 0 /\ \A k \in 1..Len(workers) : workers[k].busy)
         => /\ wmLog'.last = "inline"
            /\ UNCHANGED <<workers, pendingOperations, opTimers, jobs,
                           operationId, promise>>]_vars

\* an execute ran inline while every worker was busy with a pending operation
C15_Witness ==
    /\ wmLog.last = "inline"
    /\ Len(workers) > 0
    /\ \A k \in 1..Len(workers) : workers[k].busy
    /\ DOMAIN pendingOperations # {}

\* C16: after set(k, v, ttl) at time t, with no later set, delete, clear or
\* extend of k, a get(k) at a time up to t + ttl returns v and leaves the entry,
\* and a get(k) at a later time returns null and leaves no entry for k; a
\* get of a key that has no entry returns null.
C16_GetUntilExpiry ==
    [][\A k \in CacheKeys :
         KCGet(k) =>
           /\ (lastSet[k] # NoSet /\ lastSet[k].extended = 0) =>
                 IF now <= lastSet[k].at + lastSet[k].ttl
                   THEN kcRet'.ret = lastSet[k].value /\ k \in DOMAIN cache'
                   ELSE kcRet'.ret = Absent /\ k \notin DOMAIN cache'
           /\ lastSet[k] = NoSet => kcRet'.ret = Absent
           /\ (lastSet[k] = NoSet) <=> (k \notin DOMAIN cache)]_vars

\* a get, past the expiry of an entry that was set and not extended, found
\* the entry still in the map and removed it, while a get of the other key,
\* at its deadline or before, had counted a hit
C16_Witness ==
    /\ kcRet.op = "get"
    /\ kcRet.ret = Absent
    /\ \E r \in kcRet.removed :
         /\ r.key = kcRet.key
         /\ r.was.extended = 0
         /\ now > r.was.at + r.was.ttl
    /\ \E j \in DOMAIN cache :
         /\ lastSet[j].extended = 0
         /\ cache[j].hits > 0
         /\ now <= lastSet[j].at + lastSet[j].ttl

\* C17: the expiry of an entry is the one computed when it was set: no call
\* on the existing entry changes expiresAt, and get never returns a value
\* stored at time t with a given ttl after t + ttl.
C17_ExpiryFixedAtInsertion ==
    [][/\ \A k \in DOMAIN cache' :
            cache'[k].expiresAt = lastSet'[k].at + lastSet'[k].ttl
       /\ \A k \in CacheKeys :
            (KCGet(k) /\ kcRet'.ret # Absent) =>
               now <= lastSet[k].at + lastSet[k].ttl]_vars

\* C20: two different (password, salt) inputs never get the same cache key.
C20_CacheKeyInjective ==
    keyed.a # keyed.b => keyed.keyA # keyed.keyB

----------------------------------------------------------------------------
\* Vault: properties

\* C18: when lockVault has run, from the lock button or from the session's
\* timeout, the key cache holds no entry.
C18_LockClearsCache ==
    [][(VLock \/ VSessionTimeout) => cache' = <<>>]_vars

\* C19: when lockVault has run, the session monitor is inactive and no
\* warning or timeout timer is pending, and for as long as the vault stays
\* locked no session callback runs.
C19_LockStopsSession ==
    [][/\ vLog'.lockedBy # "none" => (~sm'.isActive /\ sm'.timers = {})
       /\ vLog.lockedBy # "none" => ~(VSessionTimeout \/ VSessionWarning)]_vars

\* the lock button was used, some time into the session, on a vault opened
\* by unlockVault: the monitor that was started is stopped
C19_Witness ==
    /\ vLog.lockedBy = "lock"
    /\ vault.view = "locked"
    /\ sm.activityHandler # Null
    /\ ~sm.isActive
    /\ sm.timers = {}
    /\ now >= warningTime

----------------------------------------------------------------------------
\* Cached derivation: properties

\* C21: the key CachedCrypto.deriveKeyFromPassword returns for a (password,
\* salt), from the cache or derived, is the key e2eeCrypto's
\* deriveKeyFromPassword gives for the same (password, salt).
C21_CachingTransparent ==
    derived.last.from # "none" =>
       derived.last.ret = DeriveKeyFromPassword(derived.last.input.password,
                                                derived.last.input.salt)

\* C22: a run of cleanup, by the 60 s interval or by a call, removes every
\* entry whose expiry has passed, removes or changes no other entry, and
\* returns the number of entries it removed.
C22_SweepRemovesExpired ==
    [][(KCSweep \/ KCCleanup) =>
         /\ DOMAIN cache' = {k \in DOMAIN cache : now <= cache[k].expiresAt}
         /\ \A k \in DOMAIN cache' : cache'[k] = cache[k]
         /\ kcRet'.ret = Cardinality((DOMAIN cache) \ (DOMAIN cache'))]_vars

\* the interval's sweep removed both an entry that had expired and left one
\* that was at its deadline
C22_Witness ==
    /\ kcRet.op = "sweep"
    /\ kcRet.ret = 1
    /\ \E r \in kcRet.removed : now > r.was.at + r.was.ttl
    /\ \E k \in DOMAIN cache : cache[k].expiresAt = now

----------------------------------------------------------------------------
\* Challenge store and password proofs: properties

\* a step of verifyPasswordProof: no other step leaves the clock, the
\* interval and the issued challengeIds alone
ZKVerifyStep ==
    /\ zkRet'.op = "verifyPasswordProof"
    /\ now' = now
    /\ zkDue' = zkDue
    /\ zkLog'.issued = zkLog.issued

\* C23: once a verifyPasswordProof has succeeded for a challengeId, no later
\* verifyPasswordProof with that challengeId succeeds.
C23_ChallengeConsumedOnce ==
    [][(ZKVerifyStep /\ zkRet'.challengeId \in zkLog.succeeded)
          => ~Truthy(zkRet'.ret)]_vars

\* C24: verifyPasswordProof with a challengeId that is not in the store
\* returns false and leaves the stores as they are; with a stored challenge
\* older than 5 minutes it returns false and removes that challenge and
\* nothing else, whatever the proof is.
C24_UnknownOrExpiredFails ==
    [][ZKVerifyStep =>
         LET id == zkRet'.challengeId IN
         /\ id \notin DOMAIN challenges =>
               /\ zkRet'.ret = JSFalse
               /\ challenges' = challenges
               /\ proofs' = proofs
         /\ (/\ id \in DOMAIN challenges
             /\ now - challenges[id].timestamp > challengeMaxAge) =>
               /\ zkRet'.ret = JSFalse
               /\ challenges' = MapDelete(challenges, id)
               /\ proofs' = proofs]_vars

\* a complete proof was verified against a stored challenge that was older
\* than 5 minutes and that the interval had not removed yet: false, and the
\* challenge is gone while another one is still stored
C24_Witness ==
    /\ zkRet.op = "verifyPasswordProof"
    /\ zkRet.expired
    /\ zkRet.proof = PasswordProof("'c0'", "'f1'", "'5a'")
    /\ zkRet.ret = JSFalse
    /\ zkRet.challengeId \notin DOMAIN challenges
    /\ challenges # <<>>

\* C25: verifyPasswordProof resolves with true or false and nothing else;
\* for a proof without commitment, response or salt it resolves with false,
\* the challenge is not marked verified and no verified-proof record is
\* stored.
C25_ReturnsBoolean ==
    zkRet.op = "verifyPasswordProof" =>
       /\ zkRet.ret \in {JSTrue, JSFalse}
       /\ (~Truthy(AndChain(zkRet.proof.commitment, zkRet.proof.response,
                            zkRet.proof.salt))
             /\ zkRet.challengeId \notin zkLog.succeeded) =>
            /\ zkRet.challengeId \notin DOMAIN proofs
            /\ zkRet.challengeId \in DOMAIN challenges =>
                  ~challenges[zkRet.challengeId].verified

----------------------------------------------------------------------------
\* Vault access proofs and age proofs: properties

\* C26: verifyVaultAccessProof returns true exactly when the proof has a
\* commitment and a response, its commitment equals the stored one, and its
\* timestamp is there and lies no more than 5 minutes before the call.
C26_VaultProofFreshAndEqual ==
    checked.fn = "verifyVaultAccessProof" =>
       (checked.ret <=>
          /\ checked.proof.isObject
          /\ Truthy(checked.proof.commitment)
          /\ Truthy(checked.proof.response)
          /\ checked.proof.commitment = checked.storedCommitment
          /\ checked.proof.timestamp # Undefined
          /\ now - checked.proof.timestamp >= 0
          /\ now - checked.proof.timestamp <= vaultProofMaxAge)

\* C27: verifyAgeProof returns true only for a proof that has a commitment
\* and a rangeProof and whose timestamp is there and lies within the last
\* hour.
C27_AgeProofCompleteAndFresh ==
    (checked.fn = "verifyAgeProof" /\ checked.ret) =>
       /\ checked.proof.isObject
       /\ Truthy(checked.proof.commitment)
       /\ Truthy(checked.proof.rangeProof)
       /\ checked.proof.timestamp # Undefined
       /\ now - checked.proof.timestamp >= 0
       /\ now - checked.proof.timestamp <= ageProofMaxAge

\* C28: createAgeProof gives meetsRequirement = true exactly when, on the
\* day of the clock, the birthday that completes minAge years has come: true
\* for a birthdate exactly minAge years before today, false for the
\* birthdate one day later; and the proof has no field for the birthdate or
\* the age.
C28_MeetsRequirementIsCompletedYears ==
    aged.minAge # 0 =>
       /\ aged.proof.meetsRequirement <=>
             DayNumber(BirthdayAfter(aged.birthdate, aged.minAge))
                <= DayNumber(aged.today)
       /\ aged.birthdate = JSDate(aged.today.year - aged.minAge,
                                  aged.today.month, aged.today.date)
            => (aged.proof.meetsRequirement
                /\ ~aged.proofDayLater.meetsRequirement)
       /\ DOMAIN aged.proof = {"commitment", "rangeProof", "meetsRequirement",
                               "minAge", "timestamp"}

\* on 29 February 2024 a proof was made for someone born on 29 February
\* 2004 and minAge 20, and for someone born a day later
C28_Witness ==
    /\ aged.today = JSDate(2024, 1, 29)
    /\ aged.birthdate = JSDate(2004, 1, 29)
    /\ aged.minAge = 20
    /\ aged.proof.meetsRequirement
    /\ ~aged.proofDayLater.meetsRequirement

----------------------------------------------------------------------------
\* Message encryption: properties

\* C29: decryptMessage with another key or none, with an envelope in which a
\* bit of the ciphertext (the tag is its end) or of the iv was flipped, or
\* with an envelope that is null or lacks a field, is rejected, always with
\* the same error.
C29_TamperedNeverDecrypts ==
    (sealed.phase = "decrypted" /\ sealed.tamper.kind # "none") =>
       /\ sealed.outcome.settled = "rejected"
       /\ sealed.outcome.error = decryptFailed

\* C30: decryptMessage of the envelope encryptMessage made, with the same
\* key, returns the message that was encrypted.
C30_RoundTrip ==
    (sealed.phase = "decrypted" /\ sealed.tamper.kind = "none") =>
       /\ sealed.outcome.settled = "resolved"
       /\ sealed.outcome.value = sealed.message

\* C31 as stated: two envelopes encryptMessage made with the same key never
\* carry the same iv.
C31_IvNeverReused ==
    \A i, j \in 1..Len(sent) :
       (i # j /\ sent[i].key = sent[j].key)
          => sent[i].envelope.iv # sent[j].envelope.iv

\* C31: the iv of an envelope is the base64 text of the twelve bytes
\* getRandomValues returned in that call of encryptMessage, so two envelopes
\* carry the same iv exactly when the random source returned the same bytes
\* twice.
C31_IvIsTheDrawOfItsCall ==
    /\ \A i \in 1..Len(sent) :
          /\ Atob(sent[i].envelope.iv) = [ok |-> TRUE, bytes |-> sent[i].drawn]
          /\ Len(sent[i].drawn) = 12
    /\ \A i, j \in 1..Len(sent) :
          sent[i].envelope.iv = sent[j].envelope.iv <=> sent[i].drawn = sent[j].drawn

C31_Witness ==
    /\ Len(sent) = 2
    /\ sent[1].key = sent[2].key
    /\ sent[1].drawn # sent[2].drawn
    /\ sent[1].envelope.iv # sent[2].envelope.iv

----------------------------------------------------------------------------
\* Key pairs: properties

\* C32: deriveSharedSecret fails with one error when the owner has no stored
\* key pair and with another when the remote public key is not imported, and
\* a failing call leaves the key-pair store as it was.
C32_TwoErrorsStoreUnchanged ==
    [][(EDeriveSharedSecret /\ engine'.ret.settled = "rejected") =>
          /\ engine'.keyPairs = engine.keyPairs
          /\ \A a, b \in engine'.failures :
                a.cause # b.cause => a.error # b.error]_vars

\* C33: no value the engine returns or exports and no message the worker
\* posts holds a private key.
C33_NoPrivateKeyLeaves ==
    /\ ~ContainsPrivateKey(engine.ret.value)
    /\ ~ContainsPrivateKey(engine.posted.result)

----------------------------------------------------------------------------
\* Rate limiter with two identifiers: properties

\* what checkLimit(id) would return at time t with the maps at and bu
NextCheckLimit(at, bu, id, t) ==
    LET recent == RecentAttempts(at, id, t) IN
    IF IsBlocked(bu, id, t)
      THEN [allowed |-> FALSE, retryAfter |-> RetryAfterBlocked(bu[id], t),
            attemptsLeft |-> Undefined]
    ELSE IF LimitExceeded(recent)
      THEN [allowed |-> FALSE, retryAfter |-> CeilDiv(windowMs, 1000),
            attemptsLeft |-> Undefined]
    ELSE [allowed |-> TRUE, retryAfter |-> Undefined,
          attemptsLeft |-> maxAttempts - (Len(recent) + 1)]

\* the step leaves everything recorded for the identifier as it was
SameFor(b) ==
    /\ (b \in DOMAIN attempts') = (b \in DOMAIN attempts)
    /\ UserAttempts(attempts', b) = UserAttempts(attempts, b)
    /\ (b \in DOMAIN blockedUntil') = (b \in DOMAIN blockedUntil)
    /\ (b \in DOMAIN blockedUntil => blockedUntil'[b] = blockedUntil[b])
    /\ NextCheckLimit(attempts', blockedUntil', b, now')
         = NextCheckLimit(attempts, blockedUntil, b, now)

\* C34: checkLimit(a) and reset(a) leave the attempts and the block of every
\* other identifier b as they were, and with them what the next
\* checkLimit(b) returns.
C34_IdentifiersIndependent ==
    [][\A a \in Identifiers :
          (CheckLimit(a) \/ Reset(a)) =>
             \A b \in Identifiers \ {a} : SameFor(b)]_vars

C34_Witness ==
    /\ rlResult["vault-unlock"].op = "reset"
    /\ rlResult["vault-unlock"].resetInBlock
    /\ "zk-proof" \in DOMAIN attempts
    /\ Len(attempts["zk-proof"]) = 2
    /\ "vault-unlock" \notin DOMAIN attempts

----------------------------------------------------------------------------
\* Worker pool dispatcher: busy flags and pending operations

\* the pending operations that name the worker
PendingOn(w) ==
    {i \in DOMAIN pendingOperations : pendingOperations[i].workerId = w.id}

\* C35: a worker is busy exactly when one pending operation names it, no two
\* pending operations name the same worker, and the ids of the operations
\* are all below the counter the next id is taken from.
C35_BusyIffOnePending ==
    /\ \A k \in 1..Len(workers) :
          workers[k].busy <=> Cardinality(PendingOn(workers[k])) = 1
    /\ \A i, j \in DOMAIN pendingOperations :
          i # j => pendingOperations[i].workerId # pendingOperations[j].workerId
    /\ \A i \in DOMAIN promise : i < operationId

----------------------------------------------------------------------------
\* Vault and rate limiter: properties

\* the step is a checkLimit('vault-unlock') that was denied
UnlockDeniedStep ==
    /\ rlResult'["vault-unlock"] # rlResult["vault-unlock"]
    /\ rlResult'["vault-unlock"].op = "checkLimit"
    /\ ~rlResult'["vault-unlock"].allowed

\* the step resets the 'vault-unlock' limit
UnlockResetStep ==
    \/ /\ rlResult'["vault-unlock"] # rlResult["vault-unlock"]
       /\ rlResult'["vault-unlock"].op = "reset"
    \/ "vault-unlock" \in (DOMAIN attempts) \ (DOMAIN attempts')
    \/ "vault-unlock" \in (DOMAIN blockedUntil) \ (DOMAIN blockedUntil')

\* C36: an unlockVault the rate limiter denies ends there: the vault stays
\* locked, its masterKey is not set and no part of the call is left to run,
\* whatever the password; and the 'vault-unlock' limit is reset only in an
\* unlockVault whose proof was just verified against the commitment.
C36_DeniedNeverUnlocks ==
    [][/\ UnlockDeniedStep =>
            /\ ~vault'.isUnlocked
            /\ vault' = vault
            /\ vCalls' = vCalls
       /\ UnlockResetStep =>
            \E c \in vCalls \ vCalls' :
               /\ c.fn = "unlock" /\ c.pc = "proof"
               /\ c.right
               /\ c.salt = vault.commitment]_vars

\* an unlockVault was denied on a locked vault
C36_Witness ==
    /\ rlResult["vault-unlock"].op = "checkLimit"
    /\ ~rlResult["vault-unlock"].allowed
    /\ rlResult["vault-unlock"].branch = "exceeded"
    /\ vault.view = "locked"
    /\ ~vault.isUnlocked
    /\ vault.masterKey = Null
    /\ vCalls = {}

\* C37: whenever the vault is unlocked and holds a masterKey, the session
\* monitor is active.
C37_UnlockedHasSession ==
    (vault.isUnlocked /\ vault.masterKey # Null) => sm.isActive

\* the vault is open under a running session and the last activity (or the
\* unlock) is timeoutMs or more ago
SessionOverdue ==
    /\ vault.isUnlocked
    /\ sm.isActive
    /\ now >= sm.lastActivity + sm.timeoutMs

\* the vault is locked, holds no key and no data, and the monitor is off
LockedOut ==
    /\ ~vault.isUnlocked
    /\ vault.masterKey = Null
    /\ vault.vaultData = "empty"
    /\ ~sm.isActive

\* C38: unlockVault starts the session with its timeout timer due timeoutMs
\* later; while the vault it opened stays open the timer is due timeoutMs
\* after the last activity; and once that time has come with no activity,
\* the vault gets locked: isUnlocked false, masterKey null, vaultData
\* emptied, the monitor inactive.
C38_IdleVaultLocks ==
    /\ [][(VUnlockLoad /\ ~vault.isUnlocked /\ vault'.isUnlocked) =>
             /\ sm'.isActive
             /\ PendingTimeoutDue(sm') = now + sm'.timeoutMs]_vars
    /\ [][(vault.isUnlocked /\ sm.isActive) =>
             \/ /\ vault'.isUnlocked
                /\ sm'.isActive
                /\ PendingTimeoutDue(sm') = sm'.lastActivity + sm'.timeoutMs
                /\ now' <= PendingTimeoutDue(sm')
             \/ LockedOut']_vars
    /\ SessionOverdue ~> (LockedOut \/ (sm.isActive /\ now < sm.lastActivity + sm.timeoutMs))

\* the session's timeout locked a vault that unlockVault had opened
C38_Witness ==
    /\ vLog.lockedBy = "timeout"
    /\ LockedOut
    /\ vault.view = "locked"
    /\ now >= defaultTimeoutMs

----------------------------------------------------------------------------
\* Rate limiter: allowed calls in a window

\* C39: with no reset in between, the checkLimit calls on an identifier that
\* were allowed less than windowMs before the time of the clock are at most
\* maxAttempts, and an allowed call reports an attemptsLeft from 0 to
\* maxAttempts - 1.
C39_AtMostMaxAttemptsPerWindow ==
    \A id \in Identifiers :
       /\ Cardinality(allowedLog[id]) <= maxAttempts
       /\ \A e \in allowedLog[id] : now - e[1] < windowMs
       /\ (rlResult[id].op = "checkLimit" /\ rlResult[id].allowed) =>
             /\ rlResult[id].attemptsLeft >= 0
             /\ rlResult[id].attemptsLeft <= maxAttempts - 1

\* the window has moved on: the last of maxAttempts allowed calls came after
\* an earlier attempt had left the window
C39_Witness ==
    /\ now >= windowMs
    /\ Cardinality(allowedLog["vault-unlock"]) = maxAttempts
    /\ Cardinality({e[1] : e \in allowedLog["vault-unlock"]}) > 1
    /\ rlResult["vault-unlock"].op = "checkLimit"
    /\ rlResult["vault-unlock"].allowed
    /\ rlResult["vault-unlock"].attemptsLeft = 0

----------------------------------------------------------------------------
\* Age proof verifier: what an accepted proof asserts

\* C40: verifyAgeProof returns true only for a proof whose meetsRequirement
\* is true.
C40_AcceptedMeetsRequirement ==
    (checked.fn = "verifyAgeProof" /\ checked.ret) =>
       checked.proof.meetsRequirement = JSTrue

====
